---------------------------- MODULE Spec2Model ----------------------------
(***************************************************************************)
(* A model of the real-time data plane of the nightjar audio engine:       *)
(*   - SpscRingBuffer<N>       (spsc_ring_buffer.h)                         *)
(*   - TrackMixer's double-buffered slot list (track_mixer.cpp)            *)
(*   - OboeRecordingStream + WavWriter (oboe_recording_stream.cpp,         *)
(*     wav_writer.cpp)                                                     *)
(* Threads are interleaved at the granularity of their atomic loads and    *)
(* stores.                                                                 *)
(***************************************************************************)
EXTENDS Integers, Sequences, FiniteSets, TLC

\* ------------------------------------------------------------------ bounds
\* log2 of the ring capacity used by the model (the program uses 2^17).
RingBits == 1
\* Total number of samples the producer side ever offers to write().
MaxSamples == 4
\* Largest `count` argument of one write()/read() call in SpecRing.
MaxCount == 3

\* Total number of samples the capture hardware delivers in one run.
MaxCaptured == 2
\* Largest numFrames of one input callback.
MaxFrames == 2
\* Number of start() calls in one run.
MaxStarts == 2
\* Samples per read() of the writer thread (the program's kWriteChunkSamples
\* is 4096, 1/32 of the ring).
ChunkSamples == 1

\* Millisecond arguments of seekTo/setLoopRegion/addTrack are 0..MaxMs.
MaxMs == 1
\* numFrames of an output callback is BurstFrames * (1..MaxBursts).
BurstFrames == 22
MaxBursts == 1
\* Output callbacks run while the advanced position stays <= MaxPos.
MaxPos == 66
\* Number of output device errors in one run.
MaxErrors == 2
\* Longest track list of the playback engine.
MaxTracks == 1

\* Longest SlotList of the slot-data model.
MaxMixTracks == 2
\* durationMs arguments of addTrack in the slot-data model are 1..MaxTrackMs.
MaxTrackMs == 2
\* renderFrames is called at positions (BurstFrames / 2) * (0..MaxRenderHalves).
MaxRenderHalves == 8
\* A long track lasts LongMs milliseconds: more frames than one mono block.
LongMs == 47

\* Number of TrackSlot objects addTrack may create in one run.
MaxSlots == 3
\* Track ids the control thread uses are 1..MaxTrackId.
MaxTrackId == 2

\* Template parameter N of SpscRingBuffer (a power of two).
N == 2 ^ RingBits
\* size_t arithmetic is modular.  The target's size_t has 64 bits; TLC's
\* integers have 32, so the model keeps 30 bits.
SizeMod == 2 ^ 30

\* ------------------------------------------------------------------ state
VARIABLES
    \* SpscRingBuffer
    writePos,      \* std::atomic<size_t> writePos_
    readPos,       \* std::atomic<size_t> readPos_
    buffer,        \* float buffer_[N]; a sample is the sequence number of the
                   \* captured sample it holds (0 = the memset value)
    prod,          \* the thread inside write(): pc and locals
    cons,          \* the thread inside read(): pc and locals
    obs,           \* a thread inside availableToRead()
    \* history (not program state)
    nextSample,    \* number of samples offered to write() so far
    accepted,      \* samples accepted by write(), in order
    consumed,      \* samples returned by read(), in order
    unread,        \* slots holding a stored sample the consumer has not copied
    overwrote,     \* a write() stored into a slot of `unread`
    \* TrackMixer
    lists,         \* SlotList listA_, listB_: sequences of TrackSlot objects
    activeList,    \* std::atomic<SlotList*> activeList_: "A" or "B"
    editMutex,     \* std::mutex editMutex_ is held
    slotTrack,     \* TrackSlot::trackId of each TrackSlot object (0: not created)
    srcState,      \* the slot's WavTrackSource: "none", "mapped" or "closed"
    unmaps,        \* number of munmap calls made on the slot's source
    mut,           \* the control thread inside addTrack/removeTrack/removeAllTracks
    rnd,           \* the audio thread inside renderFrames
    \* history (not program state)
    raced,         \* a mutator wrote the list a render in flight had loaded
    freedInFlight, \* a source was unmapped while a render in flight had its slot
    \* OboeRecordingStream
    rs,            \* active_, pipelineHot_, writeGateOpen_, peakAmplitude_, stream_
    hw,            \* the hardware input stream: "closed", "open" or "started"
    errPending,    \* the provider owes an onErrorAfterClose call
    cb,            \* the audio thread inside onAudioReady
    ctl,           \* the control thread inside start/stop/awaitFirstBuffer
    \* WavWriter
    ww,            \* running_, file_ (0 = nullptr), totalBytesWritten_
    wr,            \* writerThread_: the thread inside writerLoop
    files,         \* the files fopen created, by handle
    crashed,       \* the process died: "none", or why
    starts,        \* number of start() calls so far
    \* history (not program state)
    gh,            \* cbRan, gated, sessionLive
    \* AudioEngine playback side: AtomicTransport, OboePlaybackStream
    tp,            \* AtomicTransport: playing, recording, posFrames, ...
    po,            \* initialized_, stream_ != nullptr, the hardware output stream
    perr,          \* the provider owes the playback stream an onErrorAfterClose
    pcb,           \* the audio thread inside OboePlaybackStream::onAudioReady
    pe,            \* the error thread inside OboePlaybackStream::onErrorAfterClose
    ectl,          \* the control thread inside an AudioEngine playback call
    tracks,        \* the mixer's active track list as the engine sees it
    \* history (not program state)
    pg,            \* raised, delivered, attempts
    \* TrackMixer's slot data, with the control thread and the mixer alone
    mxLists,       \* SlotList listA_, listB_: sequences of TrackSlot records
    mxActive,      \* activeList_: "A" or "B"
    mxCall,        \* the last call: op, id, ret, and renderFrames' output
    \* WavTrackSource
    wav            \* a thread inside WavTrackSource::open: the file, the
                   \* members, the chunk walk's locals

ringVars == <<writePos, readPos, buffer, prod, cons, obs,
              nextSample, accepted, consumed, unread, overwrote>>

mixVars == <<lists, activeList, editMutex, slotTrack, srcState, unmaps,
             mut, rnd, raced, freedInFlight>>

capVars == <<rs, hw, errPending, cb, ctl, ww, wr, files, crashed, starts, gh>>

playVars == <<tp, po, perr, pcb, pe, ectl, tracks, pg>>

dataVars == <<mxLists, mxActive, mxCall, wav>>

vars == <<ringVars, mixVars, capVars, playVars, dataVars>>

\* What the ring buffer's own steps leave alone, and what the mixer's do.
nonRingVars == <<mixVars, capVars, playVars, dataVars>>
nonMixVars == <<ringVars, capVars, playVars, dataVars>>
nonPlayVars == <<ringVars, mixVars, capVars, dataVars>>
nonDataVars == <<ringVars, mixVars, capVars>>
ringCore == <<writePos, readPos, buffer>>
ringHist == <<nextSample, accepted, consumed, unread, overwrote>>

\* The process has not died (std::terminate, a null FILE*).
Alive == crashed = "none"

\* ---------------------------------------------------------------- helpers
Min(a, b) == IF a < b THEN a ELSE b
Max(a, b) == IF a > b THEN a ELSE b

\* size_t subtraction and addition
SubSz(a, b) == (a - b) % SizeMod
AddSz(a, b) == (a + b) % SizeMod

RECURSIVE BitAnd(_, _)
BitAnd(a, b) ==
    IF a = 0 \/ b = 0 THEN 0
    ELSE (a % 2) * (b % 2) + 2 * BitAnd(a \div 2, b \div 2)

IsPrefix(s, t) == Len(s) <= Len(t) /\ SubSeq(t, 1, Len(s)) = s

\* --------------------------------------------------------- SpscRingBuffer
\* (w + i) & (N - 1)
RingIndex(p) == BitAnd(p, N - 1)

\* write(): available = N - (w - r); toWrite = min(count, available)
RingToWrite_Unclamped(count, w, r) == count
RingToWrite(count, w, r) == Min(count, SubSz(N, SubSz(w, r)))

\* read(): available = w - r; toRead = min(count, available)
RingToRead_Unclamped(count, w, r) == count
RingToRead_OffByOne(count, w, r) == Min(count, SubSz(w, r) + 1)
RingToRead(count, w, r) == Min(count, SubSz(w, r))

\* availableToRead(): writePos_.load() - readPos_.load()
RingAvailable(w, r) == SubSz(w, r)

ProdIdle == [pc |-> "idle", data |-> <<>>, w |-> 0, r |-> 0,
             toWrite |-> 0, i |-> 0, ret |-> 0]
ConsIdle == [pc |-> "idle", count |-> 0, r |-> 0, w |-> 0, toRead |-> 0,
             i |-> 0, out |-> <<>>, ret |-> 0, avail |-> 0]
ObsIdle  == [pc |-> "idle", w |-> 0, r |-> 0, ret |-> 0]

RingHistUnchanged == UNCHANGED <<nextSample, accepted, consumed, unread, overwrote>>

\* size_t w = writePos_.load(relaxed)
WriteLoadW ==
    /\ Alive
    /\ UNCHANGED nonRingVars
    /\ prod.pc = "w_loadW"
    /\ prod' = [prod EXCEPT !.pc = "w_loadR", !.w = writePos]
    /\ UNCHANGED <<writePos, readPos, buffer, cons, obs>>
    /\ RingHistUnchanged

\* size_t r = readPos_.load(acquire); available; toWrite
WriteLoadR ==
    /\ Alive
    /\ UNCHANGED nonRingVars
    /\ prod.pc = "w_loadR"
    /\ prod' = [prod EXCEPT !.pc = "w_copy", !.r = readPos,
                            !.toWrite = RingToWrite(Len(prod.data), prod.w, readPos),
                            !.i = 0]
    /\ UNCHANGED <<writePos, readPos, buffer, cons, obs>>
    /\ RingHistUnchanged

\* buffer_[(w + i) & (N - 1)] = data[i]
WriteCopy ==
    /\ Alive
    /\ UNCHANGED nonRingVars
    /\ prod.pc = "w_copy"
    /\ prod.i < prod.toWrite
    /\ LET idx == RingIndex(AddSz(prod.w, prod.i)) IN
         /\ buffer' = [buffer EXCEPT ![idx] = prod.data[prod.i + 1]]
         /\ overwrote' = (overwrote \/ idx \in unread)
         /\ unread' = unread \cup {idx}
    /\ prod' = [prod EXCEPT !.i = prod.i + 1]
    /\ UNCHANGED <<writePos, readPos, cons, obs, nextSample, accepted, consumed>>

\* writePos_.store(w + toWrite, release); return toWrite
WriteStore ==
    /\ Alive
    /\ UNCHANGED nonRingVars
    /\ prod.pc = "w_copy"
    /\ prod.i >= prod.toWrite
    /\ writePos' = AddSz(prod.w, prod.toWrite)
    /\ accepted' = accepted \o SubSeq(prod.data, 1, Min(prod.toWrite, Len(prod.data)))
    /\ prod' = [prod EXCEPT !.pc = "w_done", !.ret = prod.toWrite]
    /\ UNCHANGED <<readPos, buffer, cons, obs, nextSample, consumed, unread, overwrote>>

\* size_t r = readPos_.load(relaxed)
ReadLoadR ==
    /\ Alive
    /\ UNCHANGED nonRingVars
    /\ cons.pc = "r_loadR"
    /\ cons' = [cons EXCEPT !.pc = "r_loadW", !.r = readPos]
    /\ UNCHANGED <<writePos, readPos, buffer, prod, obs>>
    /\ RingHistUnchanged

\* size_t w = writePos_.load(acquire); available; toRead
ReadLoadW ==
    /\ Alive
    /\ UNCHANGED nonRingVars
    /\ cons.pc = "r_loadW"
    /\ cons' = [cons EXCEPT !.pc = "r_copy", !.w = writePos,
                            !.toRead = RingToRead(cons.count, writePos, cons.r),
                            !.i = 0, !.out = <<>>,
                            !.avail = Len(accepted) - Len(consumed)]
    /\ UNCHANGED <<writePos, readPos, buffer, prod, obs>>
    /\ RingHistUnchanged

\* data[i] = buffer_[(r + i) & (N - 1)]
ReadCopy ==
    /\ Alive
    /\ UNCHANGED nonRingVars
    /\ cons.pc = "r_copy"
    /\ cons.i < cons.toRead
    /\ LET idx == RingIndex(AddSz(cons.r, cons.i)) IN
         /\ cons' = [cons EXCEPT !.i = cons.i + 1, !.out = Append(cons.out, buffer[idx])]
         /\ unread' = unread \ {idx}
    /\ UNCHANGED <<writePos, readPos, buffer, prod, obs,
                   nextSample, accepted, consumed, overwrote>>

\* readPos_.store(r + toRead, release); return toRead
ReadStore ==
    /\ Alive
    /\ UNCHANGED nonRingVars
    /\ cons.pc = "r_copy"
    /\ cons.i >= cons.toRead
    /\ readPos' = AddSz(cons.r, cons.toRead)
    /\ consumed' = consumed \o cons.out
    /\ cons' = [cons EXCEPT !.pc = "r_done", !.ret = cons.toRead]
    /\ UNCHANGED <<writePos, buffer, prod, obs, nextSample, accepted, unread, overwrote>>

\* availableToRead(): the two loads of `writePos_.load() - readPos_.load()`;
\* the operands of `-` are unsequenced, so either load may come first.
AvailLoadFirst ==
    /\ Alive
    /\ UNCHANGED nonRingVars
    /\ obs.pc = "a_call"
    /\ \/ obs' = [obs EXCEPT !.pc = "a_haveW", !.w = writePos]
       \/ obs' = [obs EXCEPT !.pc = "a_haveR", !.r = readPos]
    /\ UNCHANGED <<writePos, readPos, buffer, prod, cons>>
    /\ RingHistUnchanged

AvailLoadSecond ==
    /\ Alive
    /\ UNCHANGED nonRingVars
    /\ \/ /\ obs.pc = "a_haveW"
          /\ obs' = [obs EXCEPT !.pc = "a_done", !.r = readPos,
                                !.ret = RingAvailable(obs.w, readPos)]
       \/ /\ obs.pc = "a_haveR"
          /\ obs' = [obs EXCEPT !.pc = "a_done", !.w = writePos,
                                !.ret = RingAvailable(writePos, obs.r)]
    /\ UNCHANGED <<writePos, readPos, buffer, prod, cons>>
    /\ RingHistUnchanged

\* SpscRingBuffer(): writePos_(0), readPos_(0), memset(buffer_, 0)
RingInit ==
    /\ writePos = 0
    /\ readPos = 0
    /\ buffer = [k \in 0..(N - 1) |-> 0]
    /\ prod = ProdIdle
    /\ cons = ConsIdle
    /\ obs = ObsIdle
    /\ nextSample = 0
    /\ accepted = <<>>
    /\ consumed = <<>>
    /\ unread = {}
    /\ overwrote = FALSE

\* ------------------------------------------------- SpecRing: the callers
\* The producer thread calls write(data, count) with the next `count`
\* captured samples.
ProducerCall ==
    /\ UNCHANGED nonRingVars
    /\ prod.pc = "idle"
    /\ \E c \in 0..MaxCount :
         /\ nextSample + c <= MaxSamples
         /\ prod' = [ProdIdle EXCEPT !.pc = "w_loadW",
                                     !.data = [k \in 1..c |-> nextSample + k]]
         /\ nextSample' = nextSample + c
    /\ UNCHANGED <<writePos, readPos, buffer, cons, obs,
                   accepted, consumed, unread, overwrote>>

ProducerReturn ==
    /\ UNCHANGED nonRingVars
    /\ prod.pc = "w_done"
    /\ prod' = ProdIdle
    /\ UNCHANGED <<writePos, readPos, buffer, cons, obs>>
    /\ RingHistUnchanged

\* A diagnostics thread calls availableToRead().
ObserverCall ==
    /\ UNCHANGED nonRingVars
    /\ obs.pc = "idle"
    /\ obs' = [ObsIdle EXCEPT !.pc = "a_call"]
    /\ UNCHANGED <<writePos, readPos, buffer, prod, cons>>
    /\ RingHistUnchanged

ObserverReturn ==
    /\ UNCHANGED nonRingVars
    /\ obs.pc = "a_done"
    /\ obs' = ObsIdle
    /\ UNCHANGED <<writePos, readPos, buffer, prod, cons>>
    /\ RingHistUnchanged

\* The consumer thread calls read(data, count).
ConsumerCall ==
    /\ UNCHANGED nonRingVars
    /\ cons.pc = "idle"
    /\ \E c \in 0..MaxCount :
         cons' = [ConsIdle EXCEPT !.pc = "r_loadR", !.count = c]
    /\ UNCHANGED <<writePos, readPos, buffer, prod, obs>>
    /\ RingHistUnchanged

ConsumerReturn ==
    /\ UNCHANGED nonRingVars
    /\ cons.pc = "r_done"
    /\ cons' = ConsIdle
    /\ UNCHANGED <<writePos, readPos, buffer, prod, obs>>
    /\ RingHistUnchanged

\* ------------------------------------------------------------- TrackMixer
Slots == 1..MaxSlots
TrackIds == 1..MaxTrackId
Range(q) == {q[k] : k \in 1..Len(q)}

\* SlotList* inactive = (active == &listA_) ? &listB_ : &listA_
OtherList(l) == IF l = "A" THEN "B" ELSE "A"

\* std::remove_if + erase of the slots with this trackId
RECURSIVE EraseTrack(_, _)
EraseTrack(q, id) ==
    IF q = <<>> THEN <<>>
    ELSE IF slotTrack[Head(q)] = id THEN EraseTrack(Tail(q), id)
         ELSE <<Head(q)>> \o EraseTrack(Tail(q), id)

MutIdle == [pc |-> "idle", op |-> "none", id |-> 0, slot |-> 0,
            active |-> "A", inactive |-> "B", ret |-> TRUE]
RndIdle == [pc |-> "idle", list |-> "A", i |-> 0, snapshot |-> <<>>, seen |-> <<>>]

RenderInFlight == rnd.pc # "idle"

\* TrackSlot objects some shared_ptr still points to: the elements of both
\* vectors and the local `slot` of a running addTrack.
Referenced(ls, held) == Range(ls["A"]) \cup Range(ls["B"]) \cup held

\* The slots whose last shared_ptr goes away when the vectors become `ls`:
\* ~TrackSlot releases the source, ~WavTrackSource calls close().
Dropped(ls, held) ==
    {x \in Slots : srcState[x] = "mapped" /\ x \notin Referenced(ls, held)}

\* WavTrackSource::close() for every dropped slot: munmap if mappedData_.
CloseDropped(ls, held) ==
    /\ srcState' = [x \in Slots |->
                      IF x \in Dropped(ls, held) THEN "closed" ELSE srcState[x]]
    /\ unmaps' = [x \in Slots |->
                      IF x \in Dropped(ls, held) THEN unmaps[x] + 1 ELSE unmaps[x]]
    /\ freedInFlight' = (freedInFlight \/
                           (RenderInFlight /\ Dropped(ls, held) \cap Range(rnd.snapshot) # {}))

\* The control thread writes the vector `l` (copy-assign, push_back, erase,
\* clear), giving it the contents q.
WriteList(l, q, held) ==
    LET ls == [lists EXCEPT ![l] = q] IN
      /\ lists' = ls
      /\ raced' = (raced \/ (RenderInFlight /\ rnd.list = l))
      /\ CloseDropped(ls, held)

MixHeld == IF mut.op = "add" /\ mut.slot # 0 THEN {mut.slot} ELSE {}

\* addTrack: make_shared<WavTrackSource>, source->open(filePath) fails
AddTrackOpenFails ==
    /\ UNCHANGED nonMixVars
    /\ mut.pc = "idle"
    /\ \E id \in TrackIds :
         mut' = [MutIdle EXCEPT !.op = "add", !.id = id, !.ret = FALSE]
    /\ UNCHANGED <<lists, activeList, editMutex, slotTrack, srcState, unmaps,
                   rnd, raced, freedInFlight>>

\* addTrack: source->open succeeds; make_shared<TrackSlot>, fields filled in
AddTrackOpen ==
    /\ UNCHANGED nonMixVars
    /\ mut.pc = "idle"
    /\ \E id \in TrackIds, x \in Slots :
         /\ slotTrack[x] = 0
         /\ \A y \in Slots : y < x => slotTrack[y] # 0
         /\ slotTrack' = [slotTrack EXCEPT ![x] = id]
         /\ srcState' = [srcState EXCEPT ![x] = "mapped"]
         /\ mut' = [MutIdle EXCEPT !.pc = "lock", !.op = "add", !.id = id, !.slot = x]
    /\ UNCHANGED <<lists, activeList, editMutex, unmaps, rnd, raced, freedInFlight>>

\* removeTrack(trackId) is called
RemoveTrackCall ==
    /\ UNCHANGED nonMixVars
    /\ mut.pc = "idle"
    /\ \E id \in TrackIds :
         mut' = [MutIdle EXCEPT !.pc = "lock", !.op = "remove", !.id = id]
    /\ UNCHANGED <<lists, activeList, editMutex, slotTrack, srcState, unmaps,
                   rnd, raced, freedInFlight>>

\* removeAllTracks() is called
RemoveAllCall ==
    /\ UNCHANGED nonMixVars
    /\ mut.pc = "idle"
    /\ mut' = [MutIdle EXCEPT !.pc = "lock", !.op = "removeAll"]
    /\ UNCHANGED <<lists, activeList, editMutex, slotTrack, srcState, unmaps,
                   rnd, raced, freedInFlight>>

\* std::lock_guard<std::mutex> lock(editMutex_)
MutLock ==
    /\ UNCHANGED nonMixVars
    /\ mut.pc = "lock"
    /\ ~editMutex
    /\ editMutex' = TRUE
    /\ mut' = [mut EXCEPT !.pc = "load"]
    /\ UNCHANGED <<lists, activeList, slotTrack, srcState, unmaps,
                   rnd, raced, freedInFlight>>

\* active = activeList_.load(acquire); inactive = the other list
MutLoadActive ==
    /\ UNCHANGED nonMixVars
    /\ mut.pc = "load"
    /\ mut' = [mut EXCEPT !.active = activeList, !.inactive = OtherList(activeList),
                          !.pc = IF mut.op = "removeAll" THEN "edit" ELSE "copy"]
    /\ UNCHANGED <<lists, activeList, editMutex, slotTrack, srcState, unmaps,
                   rnd, raced, freedInFlight>>

\* *inactive = *active
MutCopy ==
    /\ UNCHANGED nonMixVars
    /\ mut.pc = "copy"
    /\ WriteList(mut.inactive, lists[mut.active], MixHeld)
    /\ mut' = [mut EXCEPT !.pc = "edit"]
    /\ UNCHANGED <<activeList, editMutex, slotTrack, rnd>>

\* inactive->push_back(slot) / inactive->erase(remove_if(...)) / inactive->clear()
MutEdit ==
    /\ UNCHANGED nonMixVars
    /\ mut.pc = "edit"
    /\ LET q == lists[mut.inactive] IN
         CASE mut.op = "add"    -> WriteList(mut.inactive, Append(q, mut.slot), MixHeld)
           [] mut.op = "remove" -> WriteList(mut.inactive, EraseTrack(q, mut.id), MixHeld)
           [] OTHER             -> WriteList(mut.inactive, <<>>, MixHeld)
    /\ mut' = [mut EXCEPT !.pc = "commit"]
    /\ UNCHANGED <<activeList, editMutex, slotTrack, rnd>>

\* commitToActive(): activeList_.store(the other list, release)
CommitToActive ==
    /\ UNCHANGED nonMixVars
    /\ mut.pc = "commit"
    /\ activeList' = OtherList(activeList)
    /\ mut' = [mut EXCEPT !.pc = "unlock"]
    /\ UNCHANGED <<lists, editMutex, slotTrack, srcState, unmaps,
                   rnd, raced, freedInFlight>>

\* ~lock_guard; the locals `slot` and `source` go out of scope; return
MutUnlock ==
    /\ UNCHANGED nonMixVars
    /\ mut.pc = "unlock"
    /\ editMutex' = FALSE
    /\ mut' = [MutIdle EXCEPT !.op = mut.op, !.id = mut.id, !.ret = TRUE]
    /\ CloseDropped(lists, {})
    /\ UNCHANGED <<lists, activeList, slotTrack, rnd, raced>>

\* renderFrames: memset; list = activeList_.load(acquire); empty -> return.
\* The range-for takes begin() and end() of *list here.
RenderLoad ==
    /\ UNCHANGED nonMixVars
    /\ rnd.pc = "idle"
    /\ rnd' = [RndIdle EXCEPT !.list = activeList,
                              !.snapshot = lists[activeList],
                              !.i = 1,
                              !.pc = IF lists[activeList] = <<>> THEN "idle" ELSE "loop"]
    /\ UNCHANGED <<lists, activeList, editMutex, slotTrack, srcState, unmaps,
                   mut, raced, freedInFlight>>

\* One iteration of `for (const auto& slot : *list)`: the element at position
\* i of the storage taken at RenderLoad.  If the control thread has rewritten
\* that vector the read is a data race: it yields the element now at that
\* position (storage reused) or the one that was there (old storage).
RenderSlot_Locked ==
    /\ UNCHANGED nonMixVars
    /\ ~editMutex
    /\ rnd.pc = "loop"
    /\ rnd.i <= Len(rnd.snapshot)
    /\ rnd' = [rnd EXCEPT !.i = rnd.i + 1,
                          !.seen = Append(rnd.seen, rnd.snapshot[rnd.i])]
    /\ UNCHANGED <<lists, activeList, editMutex, slotTrack, srcState, unmaps,
                   mut, raced, freedInFlight>>
RenderSlot ==
    /\ UNCHANGED nonMixVars
    /\ rnd.pc = "loop"
    /\ rnd.i <= Len(rnd.snapshot)
    /\ \E x \in {rnd.snapshot[rnd.i]} \cup
                (IF rnd.i <= Len(lists[rnd.list]) THEN {lists[rnd.list][rnd.i]} ELSE {}) :
         rnd' = [rnd EXCEPT !.i = rnd.i + 1, !.seen = Append(rnd.seen, x)]
    /\ UNCHANGED <<lists, activeList, editMutex, slotTrack, srcState, unmaps,
                   mut, raced, freedInFlight>>

\* renderFrames: the tanh pass over the output, then return
RenderFinish ==
    /\ UNCHANGED nonMixVars
    /\ rnd.pc = "loop"
    /\ rnd.i > Len(rnd.snapshot)
    /\ rnd' = RndIdle
    /\ UNCHANGED <<lists, activeList, editMutex, slotTrack, srcState, unmaps,
                   mut, raced, freedInFlight>>

\* TrackMixer(): both lists empty, activeList_{&listA_}
MixInit ==
    /\ lists = [l \in {"A", "B"} |-> <<>>]
    /\ activeList = "A"
    /\ editMutex = FALSE
    /\ slotTrack = [x \in Slots |-> 0]
    /\ srcState = [x \in Slots |-> "none"]
    /\ unmaps = [x \in Slots |-> 0]
    /\ mut = MutIdle
    /\ rnd = RndIdle
    /\ raced = FALSE
    /\ freedInFlight = FALSE

\* ------------------------------------------- OboeRecordingStream, WavWriter
kSampleRate == 44100
kChannelCount == 1
kBitsPerSample == 16
kBytesPerSample == kBitsPerSample \div 8

\* The value of the k-th sample the hardware delivers, in halves of full
\* scale: 0.5, -1.5, 1.0, -0.5, ... (some inside [-1, 1], some outside).
SampleHalves(k) ==
    CASE k % 4 = 1 -> 1
      [] k % 4 = 2 -> -3
      [] k % 4 = 3 -> 2
      [] OTHER     -> -1

Abs(x) == IF x < 0 THEN -x ELSE x

\* static_cast<int16_t>(float): truncation toward zero
TruncDiv(x, d) == IF x < 0 THEN -((-x) \div d) ELSE x \div d

\* clamped = max(-1.0f, min(1.0f, v)); (int16_t)(clamped * 32767.0f)
ToInt16(h) == TruncDiv(Max(-2, Min(2, h)) * 32767, 2)

\* The int16 samples fwrite appends for the floats read() returned.
RECURSIVE ConvertChunk(_)
ConvertChunk(q) ==
    IF q = <<>> THEN <<>>
    ELSE <<[tag |-> Head(q), pcm |-> ToInt16(SampleHalves(Head(q)))]>>
           \o ConvertChunk(Tail(q))

\* onAudioReady: peak = max over the block of fabs(floatData[i])
RECURSIVE BlockPeak(_)
BlockPeak(q) ==
    IF q = <<>> THEN 0 ELSE Max(Abs(SampleHalves(Head(q))), BlockPeak(Tail(q)))

\* WavWriter::getDurationMs()
DurationMs(bytes) == (bytes * 1000) \div (kSampleRate * kChannelCount * kBytesPerSample)

CbIdle  == [pc |-> "idle", data |-> <<>>]
CtlIdle == [pc |-> "idle", op |-> "none", ret |-> 0, after |-> "none",
            live |-> FALSE, tore |-> FALSE, file |-> 0]
WrNone  == [pc |-> "none"]
NoFile  == [state |-> "none", payload |-> <<>>, riffSize |-> 0, dataSize |-> 0,
            patches |-> 0]

CallbackInFlight == cb.pc # "idle"

\* Input callback, first part: the peak loop, peakAmplitude_.store(peak),
\* and `if (!pipelineHot_) pipelineHot_.store(true)`.
CbPeakHot ==
    /\ Alive
    /\ hw = "started"
    /\ cb.pc = "idle"
    /\ \E n \in 1..MaxFrames :
         /\ nextSample + n <= MaxCaptured
         /\ cb' = [pc |-> "gate", data |-> [k \in 1..n |-> nextSample + k]]
         /\ nextSample' = nextSample + n
         /\ rs' = [rs EXCEPT !.peakAmplitude = BlockPeak([k \in 1..n |-> nextSample + k]),
                             !.pipelineHot = TRUE]
    /\ gh' = [gh EXCEPT !.cbRan = TRUE]
    /\ UNCHANGED <<ringCore, prod, cons, obs, accepted, consumed, unread, overwrote>>
    /\ UNCHANGED <<hw, errPending, ctl, ww, wr, files, crashed, starts, mixVars, playVars, dataVars>>

\* if (writeGateOpen_.load(acquire)) ringBuffer_.write(floatData, numFrames)
CbGateOpen_Ignored == TRUE
CbGateOpen == rs.writeGateOpen

CbGate ==
    /\ Alive
    /\ cb.pc = "gate"
    /\ IF CbGateOpen
         THEN /\ prod' = [ProdIdle EXCEPT !.pc = "w_loadW", !.data = cb.data]
              /\ cb' = [cb EXCEPT !.pc = "write"]
              /\ gh' = [gh EXCEPT !.gated = gh.gated \cup Range(cb.data)]
         ELSE /\ cb' = CbIdle
              /\ UNCHANGED <<prod, gh>>
    /\ UNCHANGED <<ringCore, cons, obs, ringHist>>
    /\ UNCHANGED <<rs, hw, errPending, ctl, ww, wr, files, crashed, starts, mixVars, playVars, dataVars>>

\* return oboe::DataCallbackResult::Continue (after write() returned)
CbReturn ==
    /\ Alive
    /\ cb.pc = "write"
    /\ prod.pc = "w_done"
    /\ prod' = ProdIdle
    /\ cb' = CbIdle
    /\ UNCHANGED <<ringCore, cons, obs, ringHist>>
    /\ UNCHANGED <<rs, hw, errPending, ctl, ww, wr, files, crashed, starts, gh, mixVars, playVars, dataVars>>

\* The device goes away: the provider stops and closes the stream, then owes
\* the error callback.
HwError ==
    /\ Alive
    /\ hw = "started"
    /\ ~CallbackInFlight
    /\ hw' = "closed"
    /\ errPending' = TRUE
    /\ UNCHANGED <<ringVars, mixVars, playVars, dataVars, rs, cb, ctl, ww, wr, files, crashed, starts, gh>>

\* OboeRecordingStream::onErrorAfterClose: active_.store(false)
ActiveAfterError_Unchanged(a) == a
ActiveAfterError(a) == FALSE

OnErrorAfterClose ==
    /\ Alive
    /\ errPending
    /\ errPending' = FALSE
    /\ rs' = [rs EXCEPT !.active = ActiveAfterError(rs.active)]
    /\ UNCHANGED <<ringVars, mixVars, playVars, dataVars, hw, cb, ctl, ww, wr, files, crashed, starts, gh>>

\* fwrite(writeBuf, sizeof(int16_t), read, file_).  fwrite on a null FILE*
\* kills the process.
WriterAppend(chunk) ==
    IF ww.file = 0
      THEN /\ crashed' = "fwrite(nullptr)"
           /\ UNCHANGED files
      ELSE /\ files' = [files EXCEPT ![ww.file].payload = @ \o ConvertChunk(chunk)]
           /\ UNCHANGED crashed

\* The model stops a run whose file would grow past every sample captured.
RoomInFile(n) ==
    IF ww.file = 0 THEN TRUE
    ELSE Len(files[ww.file].payload) + n <= MaxCaptured + ChunkSamples

\* writerLoop: after the while loop comes drainRingBuffer(ringBuffer)
AfterLoopPc_NoDrain == "exited"
AfterLoopPc == "drain"

\* writerLoop: while (running_.load(relaxed)) { read = ringBuffer.read(...) ...
WriterCheckRunning ==
    /\ Alive
    /\ wr.pc = "loop"
    /\ IF ww.running
         THEN /\ wr' = [pc |-> "reading"]
              /\ cons' = [ConsIdle EXCEPT !.pc = "r_loadR", !.count = ChunkSamples]
         ELSE /\ wr' = [pc |-> AfterLoopPc]
              /\ UNCHANGED cons
    /\ UNCHANGED <<ringCore, prod, obs, ringHist>>
    /\ UNCHANGED <<rs, hw, errPending, cb, ctl, ww, files, crashed, starts, gh, mixVars, playVars, dataVars>>

\* writerLoop: if (read > 0) { convert; fwrite; ... } else sleep_for(2ms)
WriterGotChunk ==
    /\ Alive
    /\ wr.pc = "reading"
    /\ cons.pc = "r_done"
    /\ IF cons.ret > 0
         THEN /\ RoomInFile(cons.ret)
              /\ WriterAppend(cons.out)
              /\ wr' = [pc |-> "counting"]
              /\ UNCHANGED cons
         ELSE /\ wr' = [pc |-> "loop"]
              /\ cons' = ConsIdle
              /\ UNCHANGED <<files, crashed>>
    /\ UNCHANGED <<ringCore, prod, obs, ringHist>>
    /\ UNCHANGED <<rs, hw, errPending, cb, ctl, ww, starts, gh, mixVars, playVars, dataVars>>

\* totalBytesWritten_.fetch_add(read * sizeof(int16_t), relaxed), in
\* writerLoop and in drainRingBuffer
WriterCount ==
    /\ Alive
    /\ wr.pc \in {"counting", "drain_counting"}
    /\ ww' = [ww EXCEPT !.totalBytesWritten = @ + cons.ret * kBytesPerSample]
    /\ wr' = [pc |-> IF wr.pc = "counting" THEN "loop" ELSE "drain"]
    /\ cons' = ConsIdle
    /\ UNCHANGED <<ringCore, prod, obs, ringHist>>
    /\ UNCHANGED <<rs, hw, errPending, cb, ctl, files, crashed, starts, gh, mixVars, playVars, dataVars>>

\* drainRingBuffer: while (ringBuffer.availableToRead() > 0)
WriterDrainAvail ==
    /\ Alive
    /\ wr.pc = "drain"
    /\ obs.pc = "idle"
    /\ obs' = [ObsIdle EXCEPT !.pc = "a_call"]
    /\ wr' = [pc |-> "drain_avail"]
    /\ UNCHANGED <<ringCore, prod, cons, ringHist>>
    /\ UNCHANGED <<rs, hw, errPending, cb, ctl, ww, files, crashed, starts, gh, mixVars, playVars, dataVars>>

\* drainRingBuffer: the loop test, then read = ringBuffer.read(readBuf, chunk)
WriterDrainTest ==
    /\ Alive
    /\ wr.pc = "drain_avail"
    /\ obs.pc = "a_done"
    /\ IF obs.ret > 0
         THEN /\ wr' = [pc |-> "drain_read"]
              /\ cons' = [ConsIdle EXCEPT !.pc = "r_loadR", !.count = ChunkSamples]
         ELSE /\ wr' = [pc |-> "exited"]
              /\ UNCHANGED cons
    /\ obs' = ObsIdle
    /\ UNCHANGED <<ringCore, prod, ringHist>>
    /\ UNCHANGED <<rs, hw, errPending, cb, ctl, ww, files, crashed, starts, gh, mixVars, playVars, dataVars>>

\* drainRingBuffer: if (read == 0) break; convert; fwrite
WriterDrainGot ==
    /\ Alive
    /\ wr.pc = "drain_read"
    /\ cons.pc = "r_done"
    /\ IF cons.ret = 0
         THEN /\ wr' = [pc |-> "exited"]
              /\ cons' = ConsIdle
              /\ UNCHANGED <<files, crashed, gh>>
         ELSE /\ RoomInFile(cons.ret)
              /\ WriterAppend(cons.out)
              /\ wr' = [pc |-> "drain_counting"]
              /\ gh' = [gh EXCEPT !.drained = TRUE]
              /\ UNCHANGED cons
    /\ UNCHANGED <<ringCore, prod, obs, ringHist>>
    /\ UNCHANGED <<rs, hw, errPending, cb, ctl, ww, starts, mixVars, playVars, dataVars>>

\* ---- the control thread: start(filePath)
\* start(): if (active_) return false; otherwise go on to the resets
StartCall ==
    /\ Alive
    /\ ctl.pc = "idle"
    /\ starts < MaxStarts
    /\ starts' = starts + 1
    /\ IF rs.active
         THEN ctl' = [CtlIdle EXCEPT !.op = "start", !.ret = 0]
         ELSE ctl' = [CtlIdle EXCEPT !.op = "start", !.pc = "s_resetW"]
    /\ UNCHANGED <<ringVars, mixVars, playVars, dataVars, rs, hw, errPending, cb, ww, wr, files, crashed, gh>>

\* ringBuffer_.reset(): writePos_.store(0, relaxed)
StartResetW ==
    /\ Alive
    /\ ctl.pc = "s_resetW"
    /\ writePos' = 0
    /\ ctl' = [ctl EXCEPT !.pc = "s_resetR"]
    /\ UNCHANGED <<readPos, buffer, prod, cons, obs, ringHist>>
    /\ UNCHANGED <<mixVars, playVars, dataVars, rs, hw, errPending, cb, ww, wr, files, crashed, starts, gh>>

\* ringBuffer_.reset(): readPos_.store(0, relaxed)
StartResetR ==
    /\ Alive
    /\ ctl.pc = "s_resetR"
    /\ readPos' = 0
    /\ accepted' = <<>>
    /\ consumed' = <<>>
    /\ unread' = {}
    /\ ctl' = [ctl EXCEPT !.pc = "s_flags"]
    /\ UNCHANGED <<writePos, buffer, prod, cons, obs, nextSample, overwrote>>
    /\ UNCHANGED <<mixVars, playVars, dataVars, rs, hw, errPending, cb, ww, wr, files, crashed, starts, gh>>

\* pipelineHot_ = false; writeGateOpen_ = false; peakAmplitude_ = 0
StartResetFlags_KeepHot(r) ==
    [r EXCEPT !.writeGateOpen = FALSE, !.peakAmplitude = 0]
StartResetFlags(r) ==
    [r EXCEPT !.pipelineHot = FALSE, !.writeGateOpen = FALSE, !.peakAmplitude = 0]

StartFlags ==
    /\ Alive
    /\ ctl.pc = "s_flags"
    /\ rs' = StartResetFlags(rs)
    /\ gh' = [gh EXCEPT !.cbRan = FALSE, !.gated = {}, !.drained = FALSE]
    /\ ctl' = [ctl EXCEPT !.pc = "s_open"]
    /\ UNCHANGED <<ringVars, mixVars, playVars, dataVars, hw, errPending, cb, ww, wr, files, crashed, starts>>

\* wavWriter_.open(filePath): totalBytesWritten_ = 0; file_ = fopen(...);
\* on success writeWavHeader(); on failure start() returns false
StartOpenFile ==
    /\ Alive
    /\ ctl.pc = "s_open"
    /\ \/ /\ ww' = [ww EXCEPT !.totalBytesWritten = 0, !.file = starts]
          /\ files' = [files EXCEPT ![starts] = [NoFile EXCEPT !.state = "open"]]
          /\ ctl' = [ctl EXCEPT !.pc = "s_stream"]
       \/ /\ ww' = [ww EXCEPT !.totalBytesWritten = 0, !.file = 0]
          /\ UNCHANGED files
          /\ ctl' = [ctl EXCEPT !.pc = "idle", !.ret = 0]
    /\ UNCHANGED <<ringVars, mixVars, playVars, dataVars, rs, hw, errPending, cb, wr, crashed, starts, gh>>

\* builder.openStream(stream_): OK, or failure -> wavWriter_.stopConsuming();
\* return false
StartOpenStream ==
    /\ Alive
    /\ ctl.pc = "s_stream"
    /\ \/ /\ rs' = [rs EXCEPT !.stream = TRUE]
          /\ hw' = "open"
          /\ ctl' = [ctl EXCEPT !.pc = "s_consume"]
       \/ /\ ctl' = [ctl EXCEPT !.pc = "sc_signal", !.after = "s_fail"]
          /\ UNCHANGED <<rs, hw>>
    /\ UNCHANGED <<ringVars, mixVars, playVars, dataVars, errPending, cb, ww, wr, files, crashed, starts, gh>>

\* wavWriter_.startConsuming(ringBuffer_): running_ = true;
\* writerThread_ = std::thread(writerLoop).  Assigning to a std::thread that
\* is still joinable calls std::terminate.
StartConsuming ==
    /\ Alive
    /\ ctl.pc = "s_consume"
    /\ IF ww.file = 0
         THEN UNCHANGED <<ww, wr, crashed>>
         ELSE /\ ww' = [ww EXCEPT !.running = TRUE]
              /\ IF wr.pc = "none"
                   THEN wr' = [pc |-> "loop"] /\ UNCHANGED crashed
                   ELSE crashed' = "std::terminate" /\ UNCHANGED wr
    /\ ctl' = [ctl EXCEPT !.pc = "s_request"]
    /\ UNCHANGED <<ringVars, mixVars, playVars, dataVars, rs, hw, errPending, cb, files, starts, gh>>

\* stream_->requestStart(): OK, or failure -> stopConsuming(); close; false
StartRequestStart ==
    /\ Alive
    /\ ctl.pc = "s_request"
    /\ \/ /\ hw' = "started"
          /\ ctl' = [ctl EXCEPT !.pc = "s_active"]
       \/ /\ ctl' = [ctl EXCEPT !.pc = "sc_signal", !.after = "s_failclose"]
          /\ UNCHANGED hw
    /\ UNCHANGED <<ringVars, mixVars, playVars, dataVars, rs, errPending, cb, ww, wr, files, crashed, starts, gh>>

\* active_.store(true, release); return true
StartActivate ==
    /\ Alive
    /\ ctl.pc = "s_active"
    /\ rs' = [rs EXCEPT !.active = TRUE]
    /\ gh' = [gh EXCEPT !.sessionLive = TRUE]
    /\ ctl' = [ctl EXCEPT !.pc = "idle", !.ret = 1]
    /\ UNCHANGED <<ringVars, mixVars, playVars, dataVars, hw, errPending, cb, ww, wr, files, crashed, starts>>

\* start()'s failure exits after stopConsuming(): (stream_->close();
\* stream_.reset();) return false
StartFail ==
    /\ Alive
    /\ ctl.pc \in {"s_fail", "s_failclose"}
    /\ IF ctl.pc = "s_failclose"
         THEN rs' = [rs EXCEPT !.stream = FALSE] /\ hw' = "closed"
         ELSE UNCHANGED <<rs, hw>>
    /\ ctl' = [ctl EXCEPT !.pc = "idle", !.ret = 0]
    /\ UNCHANGED <<ringVars, mixVars, playVars, dataVars, errPending, cb, ww, wr, files, crashed, starts, gh>>

\* ---- WavWriter::stopConsuming()
\* running_.store(false, release)
StopConsSignal ==
    /\ Alive
    /\ ctl.pc = "sc_signal"
    /\ ww' = [ww EXCEPT !.running = FALSE]
    /\ ctl' = [ctl EXCEPT !.pc = "sc_join"]
    /\ UNCHANGED <<ringVars, mixVars, playVars, dataVars, rs, hw, errPending, cb, wr, files, crashed, starts, gh>>

\* if (writerThread_.joinable()) writerThread_.join()
StopConsJoin_NoWait ==
    /\ Alive
    /\ ctl.pc = "sc_join"
    /\ ctl' = [ctl EXCEPT !.pc = "sc_close"]
    /\ UNCHANGED <<ringVars, mixVars, playVars, dataVars, rs, hw, errPending, cb, ww, wr, files, crashed, starts, gh>>
StopConsJoin ==
    /\ Alive
    /\ ctl.pc = "sc_join"
    /\ wr.pc \in {"none", "exited"}
    /\ wr' = WrNone
    /\ ctl' = [ctl EXCEPT !.pc = "sc_close"]
    /\ UNCHANGED <<ringVars, mixVars, playVars, dataVars, rs, hw, errPending, cb, ww, files, crashed, starts, gh>>

\* patchWavHeader's writeInt32LE: the four bytes of static_cast<int32_t>(value),
\* least significant first
Int32LE(value) ==
    [k \in 1..4 |-> (value \div (256 ^ (k - 1))) % 256]

\* The 32-bit little-endian number a reader finds in four header bytes.
FieldValue(b) == b[1] + 256 * b[2] + 65536 * b[3] + 16777216 * b[4]

\* patchWavHeader(): RIFF size = dataSize + 44 - 8 at offset 4, dataSize at
\* offset 40
PatchedHeader(f, dataSize) ==
    [f EXCEPT !.riffSize = FieldValue(Int32LE(dataSize + 44 - 8)),
              !.dataSize = FieldValue(Int32LE(dataSize)),
              !.patches = @ + 1]

\* if (file_) { patchWavHeader(); fclose(file_); file_ = nullptr; }
StopConsClose ==
    /\ Alive
    /\ ctl.pc = "sc_close"
    /\ IF ww.file # 0
         THEN /\ files' = [files EXCEPT ![ww.file] =
                             [PatchedHeader(@, ww.totalBytesWritten) EXCEPT !.state = "closed"]]
              /\ ww' = [ww EXCEPT !.file = 0]
         ELSE UNCHANGED <<files, ww>>
    /\ ctl' = [ctl EXCEPT !.pc = ctl.after, !.after = "none"]
    /\ UNCHANGED <<ringVars, mixVars, playVars, dataVars, rs, hw, errPending, cb, wr, crashed, starts, gh>>

\* ---- the control thread: stop()
\* if (!active_) return -1; active_.store(false)
StopCall ==
    /\ Alive
    /\ ctl.pc = "idle"
    /\ IF rs.active
         THEN /\ rs' = [rs EXCEPT !.active = FALSE]
              /\ ctl' = [CtlIdle EXCEPT !.op = "stop", !.pc = "st_close",
                                        !.live = gh.sessionLive, !.tore = TRUE,
                                        !.file = ww.file]
         ELSE /\ ctl' = [CtlIdle EXCEPT !.op = "stop", !.ret = -1,
                                        !.live = gh.sessionLive, !.file = ww.file]
              /\ UNCHANGED rs
    /\ UNCHANGED <<ringVars, mixVars, playVars, dataVars, hw, errPending, cb, ww, wr, files, crashed, starts, gh>>

\* if (stream_) { requestStop(); close(); stream_.reset(); }  close() returns
\* once no data callback is running.
StopCloseStream ==
    /\ Alive
    /\ ctl.pc = "st_close"
    /\ ~CallbackInFlight
    /\ IF rs.stream
         THEN rs' = [rs EXCEPT !.stream = FALSE] /\ hw' = "closed"
         ELSE UNCHANGED <<rs, hw>>
    /\ ctl' = [ctl EXCEPT !.pc = "sc_signal", !.after = "st_ret"]
    /\ UNCHANGED <<ringVars, mixVars, playVars, dataVars, errPending, cb, ww, wr, files, crashed, starts, gh>>

\* durationMs = getDurationMs(); peakAmplitude_ = 0;
\* return getTotalBytesWritten() == 0 ? -1 : durationMs
StopResult(bytes) == IF bytes = 0 THEN -1 ELSE DurationMs(bytes)

StopReturn ==
    /\ Alive
    /\ ctl.pc = "st_ret"
    /\ rs' = [rs EXCEPT !.peakAmplitude = 0]
    /\ ctl' = [ctl EXCEPT !.pc = "idle", !.ret = StopResult(ww.totalBytesWritten)]
    /\ gh' = [gh EXCEPT !.sessionLive = FALSE]
    /\ UNCHANGED <<ringVars, mixVars, playVars, dataVars, hw, errPending, cb, ww, wr, files, crashed, starts>>

\* ---- the control thread: awaitFirstBuffer(timeoutMs), openWriteGate()
\* deadline = now + timeoutMs
AwaitCall ==
    /\ Alive
    /\ ctl.pc = "idle"
    /\ ctl' = [CtlIdle EXCEPT !.op = "await", !.pc = "aw_poll"]
    /\ UNCHANGED <<ringVars, mixVars, playVars, dataVars, rs, hw, errPending, cb, ww, wr, files, crashed, starts, gh>>

\* while (!pipelineHot_.load(acquire)) { if (now >= deadline) return false;
\* sleep_for(1ms); }  return true.  The clock passes the deadline at any poll;
\* a poll that sleeps changes nothing and is a stuttering step.
AwaitPoll ==
    /\ Alive
    /\ ctl.pc = "aw_poll"
    /\ IF rs.pipelineHot
         THEN ctl' = [ctl EXCEPT !.pc = "idle", !.ret = 1]
         ELSE ctl' = [ctl EXCEPT !.pc = "idle", !.ret = 0]
    /\ UNCHANGED <<ringVars, mixVars, playVars, dataVars, rs, hw, errPending, cb, ww, wr, files, crashed, starts, gh>>

\* writeGateOpen_.store(true, release)
OpenWriteGate ==
    /\ Alive
    /\ ctl.pc = "idle"
    /\ rs' = [rs EXCEPT !.writeGateOpen = TRUE]
    /\ ctl' = CtlIdle
    /\ UNCHANGED <<ringVars, mixVars, playVars, dataVars, hw, errPending, cb, ww, wr, files, crashed, starts, gh>>

\* Members' initializers of OboeRecordingStream and WavWriter
CapInit ==
    /\ rs = [active |-> FALSE, pipelineHot |-> FALSE, writeGateOpen |-> FALSE,
             peakAmplitude |-> 0, stream |-> FALSE]
    /\ hw = "closed"
    /\ errPending = FALSE
    /\ cb = CbIdle
    /\ ctl = CtlIdle
    /\ ww = [running |-> FALSE, file |-> 0, totalBytesWritten |-> 0]
    /\ wr = WrNone
    /\ files = [f \in 1..MaxStarts |-> NoFile]
    /\ crashed = "none"
    /\ starts = 0
    /\ gh = [cbRan |-> FALSE, gated |-> {}, sessionLive |-> FALSE, drained |-> FALSE]

\* ------------------------------------- AudioEngine playback, OboePlaybackStream
kOutputChannelCount == 2

\* common.h msToFrames: (ms * kSampleRate) / 1000 in int64_t
msToFrames(ms) == TruncDiv(ms * kSampleRate, 1000)

\* numFrames values the output hardware asks for
FrameCounts == {BurstFrames * k : k \in 1..MaxBursts}
MsArgs == 0..MaxMs
\* positionMs of seekTo: also a negative one
SeekMsArgs == -1..MaxMs

\* TrackMixer::computeTotalFrames over the active list
RECURSIVE computeTotalFrames(_)
computeTotalFrames(list) ==
    IF list = <<>> THEN 0
    ELSE Max(Head(list).offsetFrames + Head(list).effectiveFrames,
             computeTotalFrames(Tail(list)))

\* std::remove_if + erase of the slots with this trackId
RemoveTrackId_First(list, id) == IF list = <<>> THEN <<>> ELSE Tail(list)
RECURSIVE RemoveTrackId(_, _)
RemoveTrackId(list, id) ==
    IF list = <<>> THEN <<>>
    ELSE IF Head(list).trackId = id THEN RemoveTrackId(Tail(list), id)
    ELSE <<Head(list)>> \o RemoveTrackId(Tail(list), id)

\* audioData: number of float samples written, all zero?, written by the mixer?
NoOutput == [samples |-> 0, silent |-> TRUE, mixed |-> FALSE]
PCbIdle == [pc |-> "idle", numFrames |-> 0, pos |-> 0, total |-> 0, adv |-> 0,
            loopEnd |-> 0, loopStart |-> 0, wrapped |-> FALSE, recording |-> FALSE,
            out |-> NoOutput]
\* AtomicTransport's member initializers
TransportInit ==
    [playing |-> FALSE, recording |-> FALSE, posFrames |-> 0,
     totalFrames |-> 0, loopStartFrames |-> -1, loopEndFrames |-> -1,
     loopResetCount |-> 0]
\* The control thread's position: the call it is in, its locals, and (history)
\* the Transport and the track list as they were when the call began.
NoCall == [tp |-> TransportInit, tracks |-> <<>>]
EctlIdle == [pc |-> "idle", op |-> "none", pos |-> 0, arg |-> 0, before |-> NoCall]
AtCall == [tp |-> tp, tracks |-> tracks]

PlaybackCallbackInFlight == pcb.pc # "idle"

\* memset(output, 0, numFrames * kOutputChannelCount * sizeof(float)): the
\* number of float samples zeroed
SilenceSamples_Mono(numFrames) == numFrames
SilenceSamples(numFrames) == numFrames * kOutputChannelCount

\* onAudioReady: if (!transport_.playing.load(acquire))
PCbLoadPlaying ==
    /\ po.hw = "started"
    /\ pcb.pc = "idle"
    /\ \E n \in FrameCounts :
         IF ~tp.playing
           THEN pcb' = [PCbIdle EXCEPT !.pc = "silence", !.numFrames = n]
           ELSE /\ tp.posFrames + n <= MaxPos
                /\ pcb' = [PCbIdle EXCEPT !.pc = "pos", !.numFrames = n]
    /\ UNCHANGED <<tp, po, perr, pe, ectl, tracks, pg, nonPlayVars>>

\* std::memset(output, 0, numFrames * kOutputChannelCount * sizeof(float))
PCbSilence ==
    /\ pcb.pc = "silence"
    /\ pcb' = [pcb EXCEPT !.pc = "silenced",
                          !.out = [samples |-> SilenceSamples(pcb.numFrames),
                                   silent |-> TRUE, mixed |-> FALSE]]
    /\ UNCHANGED <<tp, po, perr, pe, ectl, tracks, pg, nonPlayVars>>

\* return oboe::DataCallbackResult::Continue (the silent block goes out)
PCbSilentReturn ==
    /\ pcb.pc = "silenced"
    /\ pcb' = PCbIdle
    /\ UNCHANGED <<tp, po, perr, pe, ectl, tracks, pg, nonPlayVars>>

\* int64_t pos = transport_.posFrames.load(relaxed)
PCbLoadPos ==
    /\ pcb.pc = "pos"
    /\ pcb' = [pcb EXCEPT !.pc = "total", !.pos = tp.posFrames]
    /\ UNCHANGED <<tp, po, perr, pe, ectl, tracks, pg, nonPlayVars>>

\* int64_t total = transport_.totalFrames.load(relaxed)
PCbLoadTotal ==
    /\ pcb.pc = "total"
    /\ pcb' = [pcb EXCEPT !.pc = "render", !.total = tp.totalFrames]
    /\ UNCHANGED <<tp, po, perr, pe, ectl, tracks, pg, nonPlayVars>>

\* mixer_.renderFrames(output, numFrames, pos); pos += numFrames
PCbRender ==
    /\ pcb.pc = "render"
    /\ pcb' = [pcb EXCEPT !.pc = "loopEnd", !.adv = pcb.pos + pcb.numFrames,
                          !.pos = pcb.pos + pcb.numFrames, !.out =
               [samples |-> pcb.numFrames * kOutputChannelCount,
                silent |-> \A k \in 1..Len(tracks) :
                              \/ pcb.pos - tracks[k].offsetFrames >= tracks[k].effectiveFrames
                              \/ pcb.pos - tracks[k].offsetFrames + pcb.numFrames <= 0,
                mixed |-> TRUE]]
    /\ UNCHANGED <<tp, po, perr, pe, ectl, tracks, pg, nonPlayVars>>

\* int64_t loopEnd = transport_.loopEndFrames.load(relaxed)
PCbLoadLoopEnd ==
    /\ pcb.pc = "loopEnd"
    /\ pcb' = [pcb EXCEPT !.pc = "loopStart", !.loopEnd = tp.loopEndFrames]
    /\ UNCHANGED <<tp, po, perr, pe, ectl, tracks, pg, nonPlayVars>>

\* if (loopStart >= 0 && loopEnd > loopStart && pos >= loopEnd)
LoopWraps(loopStart, loopEnd, pos) ==
    loopStart >= 0 /\ loopEnd > loopStart /\ pos >= loopEnd

\* pos = loopStart
WrappedPos(loopStart, loopEnd, pos) == loopStart

\* int64_t loopStart = transport_.loopStartFrames.load(relaxed); the loop check
PCbLoadLoopStart ==
    /\ pcb.pc = "loopStart"
    /\ LET ls == tp.loopStartFrames
           w  == LoopWraps(ls, pcb.loopEnd, pcb.pos)
       IN pcb' = [pcb EXCEPT !.pc = "recording", !.loopStart = ls, !.wrapped = w,
                             !.pos = IF w THEN WrappedPos(ls, pcb.loopEnd, pcb.pos)
                                     ELSE pcb.pos]
    /\ UNCHANGED <<tp, po, perr, pe, ectl, tracks, pg, nonPlayVars>>

\* if (!recording && pos >= total)
AutoStop_Strict(recording, pos, total) == ~recording /\ pos > total
AutoStop_IgnoreRecording(recording, pos, total) == pos >= total
AutoStop(recording, pos, total) == ~recording /\ pos >= total

\* bool recording = transport_.recording.load(relaxed); the end-of-timeline test
PCbLoadRecording ==
    /\ pcb.pc = "recording"
    /\ pcb' = [pcb EXCEPT !.recording = tp.recording,
                          !.pc = IF AutoStop(tp.recording, pcb.pos, pcb.total)
                                   THEN "stopPlaying" ELSE "commit"]
    /\ UNCHANGED <<tp, po, perr, pe, ectl, tracks, pg, nonPlayVars>>

\* transport_.playing.store(false, release)
PCbStopPlaying ==
    /\ pcb.pc = "stopPlaying"
    /\ tp' = [tp EXCEPT !.playing = FALSE]
    /\ pcb' = [pcb EXCEPT !.pc = "stopPos"]
    /\ UNCHANGED <<po, perr, pe, ectl, tracks, pg, nonPlayVars>>

\* transport_.posFrames.store(0, relaxed); return Continue
PCbStopPos ==
    /\ pcb.pc = "stopPos"
    /\ tp' = [tp EXCEPT !.posFrames = 0]
    /\ pcb' = PCbIdle
    /\ UNCHANGED <<po, perr, pe, ectl, tracks, pg, nonPlayVars>>

\* else transport_.posFrames.store(pos, relaxed); return Continue
PCbCommit ==
    /\ pcb.pc = "commit"
    /\ tp' = [tp EXCEPT !.posFrames = pcb.pos]
    /\ pcb' = PCbIdle
    /\ UNCHANGED <<po, perr, pe, ectl, tracks, pg, nonPlayVars>>

\* ---- the output device fails: the provider closes the stream and owes
\* onErrorAfterClose
PHwError ==
    /\ po.hw = "started"
    /\ ~PlaybackCallbackInFlight
    /\ ~perr
    /\ pe.pc = "idle"
    /\ pg.raised < MaxErrors
    /\ po' = [po EXCEPT !.hw = "closed"]
    /\ perr' = TRUE
    /\ pg' = [pg EXCEPT !.raised = @ + 1]
    /\ UNCHANGED <<tp, pcb, pe, ectl, tracks, nonPlayVars>>

\* OboePlaybackStream::onErrorAfterClose is entered
POnErrorAfterClose ==
    /\ perr
    /\ pe.pc = "idle"
    /\ perr' = FALSE
    /\ pe' = [pc |-> "e_reset"]
    /\ pg' = [pg EXCEPT !.delivered = @ + 1]
    /\ UNCHANGED <<tp, po, pcb, ectl, tracks, nonPlayVars>>

\* stream_.reset()
PErrReset ==
    /\ pe.pc = "e_reset"
    /\ po' = [po EXCEPT !.stream = FALSE]
    /\ pe' = [pc |-> "e_open"]
    /\ UNCHANGED <<tp, perr, pcb, ectl, tracks, pg, nonPlayVars>>

\* where onErrorAfterClose goes when openStream() returned false: it returns
ErrAfterFailure_Retry == "e_open"
ErrAfterFailure == "idle"

\* openStream(): builder.openStream(stream_); failure -> return false
PErrOpen ==
    /\ pe.pc = "e_open"
    /\ pg.attempts <= MaxErrors
    /\ pg' = [pg EXCEPT !.attempts = @ + 1]
    /\ \/ /\ po' = [po EXCEPT !.stream = TRUE, !.hw = "open"]
          /\ pe' = [pc |-> "e_start"]
       \/ /\ pe' = [pc |-> ErrAfterFailure]
          /\ UNCHANGED po
    /\ UNCHANGED <<tp, perr, pcb, ectl, tracks, nonPlayVars>>

\* openStream(): stream_->requestStart(); failure -> close, reset, return false
PErrStart ==
    /\ pe.pc = "e_start"
    /\ \/ /\ po' = [po EXCEPT !.hw = "started"]
          /\ pe' = [pc |-> "idle"]
       \/ /\ po' = [po EXCEPT !.stream = FALSE, !.hw = "closed"]
          /\ pe' = [pc |-> ErrAfterFailure]
    /\ UNCHANGED <<tp, perr, pcb, ectl, tracks, pg, nonPlayVars>>

\* ---- the control thread: AudioEngine
\* initialize(): make the objects, playbackStream_->start() (failure is not
\* fatal), initialized_ = true
EInitialize ==
    /\ ~po.init
    /\ ectl.pc = "idle"
    /\ \/ po' = [init |-> TRUE, stream |-> TRUE, hw |-> "started"]
       \/ po' = [init |-> TRUE, stream |-> FALSE, hw |-> "closed"]
    /\ UNCHANGED <<tp, perr, pcb, pe, ectl, tracks, pg, nonPlayVars>>

EngineReady == po.init /\ ectl.pc = "idle"

\* play(): pos = posFrames.load()
EPlayCall ==
    /\ EngineReady
    /\ ectl' = [EctlIdle EXCEPT !.pc = "pl_total", !.op = "play",
                             !.pos = tp.posFrames, !.before = AtCall]
    /\ UNCHANGED <<tp, po, perr, pcb, pe, tracks, pg, nonPlayVars>>

\* play(): total = totalFrames.load(); if (pos >= total) ...
EPlayLoadTotal ==
    /\ ectl.pc = "pl_total"
    /\ ectl' = [ectl EXCEPT !.pc = IF ectl.pos >= tp.totalFrames
                                     THEN "pl_loop" ELSE "pl_play"]
    /\ UNCHANGED <<tp, po, perr, pcb, pe, tracks, pg, nonPlayVars>>

\* play(): loopStart = loopStartFrames.load(); pos = loopStart >= 0 ? loopStart : 0
EPlayLoadLoop ==
    /\ ectl.pc = "pl_loop"
    /\ ectl' = [ectl EXCEPT !.pc = "pl_pos",
                            !.pos = IF tp.loopStartFrames >= 0
                                      THEN tp.loopStartFrames ELSE 0]
    /\ UNCHANGED <<tp, po, perr, pcb, pe, tracks, pg, nonPlayVars>>

\* play(): posFrames.store(pos)
EPlayStorePos ==
    /\ ectl.pc = "pl_pos"
    /\ tp' = [tp EXCEPT !.posFrames = ectl.pos]
    /\ ectl' = [ectl EXCEPT !.pc = "pl_play"]
    /\ UNCHANGED <<po, perr, pcb, pe, tracks, pg, nonPlayVars>>

\* play(): playing.store(true, release)
EPlayStorePlaying ==
    /\ ectl.pc = "pl_play"
    /\ tp' = [tp EXCEPT !.playing = TRUE]
    /\ ectl' = EctlIdle
    /\ UNCHANGED <<po, perr, pcb, pe, tracks, pg, nonPlayVars>>

\* pause() is called
EPause ==
    /\ EngineReady
    /\ ectl' = [EctlIdle EXCEPT !.pc = "pa_store", !.op = "pause", !.before = AtCall]
    /\ UNCHANGED <<tp, po, perr, pcb, pe, tracks, pg, nonPlayVars>>

\* pause(): playing.store(false, release); return
EPauseStore ==
    /\ ectl.pc = "pa_store"
    /\ tp' = [tp EXCEPT !.playing = FALSE]
    /\ ectl' = EctlIdle
    /\ UNCHANGED <<po, perr, pcb, pe, tracks, pg, nonPlayVars>>

\* seekTo: frames = std::max((int64_t)0, std::min(frames, total))
SeekClamp_NoFloor(frames, total) == Min(frames, total)
SeekClamp(frames, total) == Max(0, Min(frames, total))

\* seekTo(positionMs): frames = msToFrames(positionMs); total = totalFrames.load()
ESeekCall ==
    /\ EngineReady
    /\ \E ms \in SeekMsArgs :
         ectl' = [EctlIdle EXCEPT !.pc = "sk_store", !.op = "seekTo",
                                  !.arg = ms, !.before = AtCall,
                                  !.pos = SeekClamp(msToFrames(ms), tp.totalFrames)]
    /\ UNCHANGED <<tp, po, perr, pcb, pe, tracks, pg, nonPlayVars>>

\* seekTo: posFrames.store(frames).  The idle control thread remembers
\* (history) that its last call was this seek, and the target.
ESeekStore ==
    /\ ectl.pc = "sk_store"
    /\ tp' = [tp EXCEPT !.posFrames = ectl.pos]
    /\ ectl' = [EctlIdle EXCEPT !.op = "seekTo", !.pos = ectl.pos]
    /\ UNCHANGED <<po, perr, pcb, pe, tracks, pg, nonPlayVars>>

\* setLoopRegion(startMs, endMs): loopStartFrames.store(msToFrames(startMs))
ESetLoopRegion ==
    /\ EngineReady
    /\ \E startMs \in MsArgs, endMs \in MsArgs :
         /\ tp' = [tp EXCEPT !.loopStartFrames = msToFrames(startMs)]
         /\ ectl' = [EctlIdle EXCEPT !.pc = "lp_end", !.arg = msToFrames(endMs)]
    /\ UNCHANGED <<po, perr, pcb, pe, tracks, pg, nonPlayVars>>

\* clearLoopRegion(): loopStartFrames.store(-1)
EClearLoopRegion ==
    /\ EngineReady
    /\ tp' = [tp EXCEPT !.loopStartFrames = -1]
    /\ ectl' = [EctlIdle EXCEPT !.pc = "lp_end", !.arg = -1]
    /\ UNCHANGED <<po, perr, pcb, pe, tracks, pg, nonPlayVars>>

\* setLoopRegion / clearLoopRegion: loopEndFrames.store(...)
ELoopStoreEnd ==
    /\ ectl.pc = "lp_end"
    /\ tp' = [tp EXCEPT !.loopEndFrames = ectl.arg]
    /\ ectl' = EctlIdle
    /\ UNCHANGED <<po, perr, pcb, pe, tracks, pg, nonPlayVars>>

\* setRecording(active): recording.store(active)
ESetRecording ==
    /\ EngineReady
    /\ \E active \in BOOLEAN : tp' = [tp EXCEPT !.recording = active]
    /\ UNCHANGED <<po, perr, pcb, pe, ectl, tracks, pg, nonPlayVars>>

\* addTrack(...): mixer_->addTrack pushes the slot (or fails to open the file
\* and changes nothing); then totalFrames.store(computeTotalFrames())
EAddTrack ==
    /\ EngineReady
    /\ \/ UNCHANGED <<tracks, ectl>>
       \/ /\ Len(tracks) < MaxTracks
          /\ \E id \in TrackIds, durationMs \in 1..MaxMs :
               \E offsetMs \in 0..(MaxMs - durationMs) :
                 tracks' = Append(tracks,
                     [trackId |-> id, offsetFrames |-> msToFrames(offsetMs),
                      effectiveFrames |-> msToFrames(durationMs - 0 - 0)])
          /\ ectl' = [EctlIdle EXCEPT !.pc = "tr_total", !.op = "addTrack"]
    /\ UNCHANGED <<tp, po, perr, pcb, pe, pg, nonPlayVars>>

\* removeTrack(trackId): mixer_->removeTrack; then the totalFrames store
ERemoveTrack ==
    /\ EngineReady
    /\ \E id \in TrackIds :
         /\ tracks' = RemoveTrackId(tracks, id)
         /\ ectl' = [EctlIdle EXCEPT !.pc = "tr_total", !.op = "removeTrack",
                                      !.arg = id, !.before = AtCall]
    /\ UNCHANGED <<tp, po, perr, pcb, pe, pg, nonPlayVars>>

\* addTrack / removeTrack: totalFrames.store(mixer_->computeTotalFrames())
ETotalStore ==
    /\ ectl.pc = "tr_total"
    /\ tp' = [tp EXCEPT !.totalFrames = computeTotalFrames(tracks)]
    /\ ectl' = EctlIdle
    /\ UNCHANGED <<po, perr, pcb, pe, tracks, pg, nonPlayVars>>

\* removeAllTracks(): mixer_->removeAllTracks(); totalFrames.store(0)
ERemoveAllTracks ==
    /\ EngineReady
    /\ tracks' = <<>>
    /\ tp' = [tp EXCEPT !.totalFrames = 0]
    /\ ectl' = [EctlIdle EXCEPT !.pc = "ra_pos"]
    /\ UNCHANGED <<po, perr, pcb, pe, pg, nonPlayVars>>

\* removeAllTracks(): posFrames.store(0)
ERemoveAllPos ==
    /\ ectl.pc = "ra_pos"
    /\ tp' = [tp EXCEPT !.posFrames = 0]
    /\ ectl' = [ectl EXCEPT !.pc = "ra_play"]
    /\ UNCHANGED <<po, perr, pcb, pe, tracks, pg, nonPlayVars>>

\* removeAllTracks(): playing.store(false)
ERemoveAllPlaying ==
    /\ ectl.pc = "ra_play"
    /\ tp' = [tp EXCEPT !.playing = FALSE]
    /\ ectl' = EctlIdle
    /\ UNCHANGED <<po, perr, pcb, pe, tracks, pg, nonPlayVars>>

\* AtomicTransport's member initializers; the engine before initialize()
PlayInit ==
    /\ tp = TransportInit
    /\ po = [init |-> FALSE, stream |-> FALSE, hw |-> "closed"]
    /\ perr = FALSE
    /\ pcb = PCbIdle
    /\ pe = [pc |-> "idle"]
    /\ ectl = EctlIdle
    /\ tracks = <<>>
    /\ pg = [raised |-> 0, delivered |-> 0, attempts |-> 0]

\* ------------------------------ TrackMixer slot data, AudioEngine track calls
\* static constexpr int32_t kMaxFramesPerCallback = 2048
kMaxFramesPerCallback == 2048

\* What WavTrackSource::open finds at filePath: no file, a file that is not
\* RIFF/WAVE, a WAV file of MaxTrackMs milliseconds, a WAV file of one burst.
TrackFiles == {"missing", "notWav", "full", "short", "long"}
\* totalFrames_ = dataSize / (kChannelCount * kBytesPerSample)
FileFrames(file) ==
    IF file = "full" THEN msToFrames(MaxTrackMs)
    ELSE IF file = "short" THEN BurstFrames
    ELSE IF file = "long" THEN msToFrames(LongMs)
    ELSE 0

\* WavTrackSource::close(): munmap if mapped; every member back to zero
WavClose(src) == [src EXCEPT !.mapped = FALSE, !.frames = 0]

\* WavTrackSource::open(filePath): ::open fails -> false; mmap, then the
\* RIFF/WAVE test fails -> close(), false; else pcmData_, totalFrames_ are set
WavOpen(file) ==
    IF file = "missing" THEN [ok |-> FALSE, mapped |-> FALSE, frames |-> 0]
    ELSE IF file = "notWav"
      THEN WavClose([ok |-> FALSE, mapped |-> TRUE, frames |-> 0])
    ELSE [ok |-> TRUE, mapped |-> TRUE, frames |-> FileFrames(file)]

\* float volume arguments: 0.0 and 2.0
Volumes == {0, 2}
\* durationMs arguments of addTrack
DurationArgs == 1..MaxTrackMs
\* positionFrames arguments of renderFrames: also positions between bursts
RenderPositions == {(BurstFrames \div 2) * k : k \in 0..MaxRenderHalves}
\* filePath, volume and muted arguments of the addTrack calls of SpecTracks
AddFiles == {"missing", "notWav", "full"}
AddVolumes == {1}
AddMuted == {FALSE}

\* addTrack: make_shared<TrackSlot>() and its field assignments
NewSlot(trackId, src, durationMs, offsetMs, trimStartMs, trimEndMs, volume, muted) ==
    [trackId         |-> trackId,
     source          |-> [mapped |-> src.mapped, frames |-> src.frames],
     offsetFrames    |-> msToFrames(offsetMs),
     trimStartFrames |-> msToFrames(trimStartMs),
     trimEndFrames   |-> msToFrames(trimEndMs),
     effectiveFrames |-> msToFrames(durationMs - trimStartMs - trimEndMs),
     volume          |-> volume,
     muted           |-> muted]

\* addTrack: if (!source->open(filePath)) return false
OpenFailed_Never(src) == FALSE
OpenFailed(src) == ~src.ok

\* WavTrackSource::readFrames: the number of frames it copies
ReadFrames(src, frameOffset, numFrames) ==
    IF ~src.mapped \/ frameOffset >= src.frames THEN 0
    ELSE Min(numFrames, src.frames - frameOffset)

\* renderFrames: skipOutput = static_cast<int32_t>(-localFrame) when the track
\* starts partway through the block
SkipOutput_Zero(localFrame) == 0
SkipOutput(localFrame) == IF localFrame < 0 THEN -localFrame ELSE 0

\* renderFrames: int32_t framesToProcess = std::min(numFrames, kMaxFramesPerCallback)
FramesToProcess_Unclamped(numFrames) == numFrames
FramesToProcess(numFrames) == Min(numFrames, kMaxFramesPerCallback)

\* renderFrames, one iteration of the slot loop: where in the output block the
\* slot's samples go, whether readFrames was called, with which first source
\* frame and which count, and how many frames it read into monoBuf
NoSpan == [skipOutput |-> 0, sourceStart |-> 0, read |-> 0, count |-> 0,
           called |-> FALSE]
SlotSpan(slot, numFrames, positionFrames) ==
    LET framesToProcess == FramesToProcess(numFrames)
        localFrame == positionFrames - slot.offsetFrames
        skipOutput == SkipOutput(localFrame)
        sourceStart == IF localFrame < 0 THEN slot.trimStartFrames
                       ELSE slot.trimStartFrames + localFrame
        readCount0 == IF localFrame < 0 THEN framesToProcess - skipOutput
                      ELSE framesToProcess
        remaining == slot.effectiveFrames - Max(localFrame, 0)
        readCount == IF readCount0 > remaining THEN remaining ELSE readCount0
    IN IF slot.muted THEN NoSpan
       ELSE IF ~slot.source.mapped THEN NoSpan
       ELSE IF slot.volume <= 0 THEN NoSpan
       ELSE IF localFrame >= slot.effectiveFrames
               \/ localFrame + framesToProcess <= 0 THEN NoSpan
       ELSE IF readCount <= 0 THEN NoSpan
       ELSE [skipOutput |-> skipOutput, sourceStart |-> sourceStart,
             read |-> ReadFrames(slot.source, sourceStart, readCount),
             count |-> readCount, called |-> TRUE]

\* std::tanh of a float, for the whole-number amplitudes the model's sums
\* take, in thousandths rounded toward zero (tanh(1) = 0.761..., tanh(9) is
\* 1.0f in float)
Tanh1000(x) ==
    LET a == Abs(x)
        t == IF a = 0 THEN 0
             ELSE IF a = 1 THEN 761
             ELSE IF a = 2 THEN 964
             ELSE IF a = 3 THEN 995
             ELSE IF a < 9 THEN 999
             ELSE 1000
    IN IF x < 0 THEN -t ELSE t

\* renderFrames: output[i] = std::tanh(output[i]), in thousandths
SoftClip_None(x) == x * 1000
SoftClip(x) == Tanh1000(x)

\* The slots whose span of the output block covers output frame j
Contributors(spans, j) ==
    {k \in DOMAIN spans :
        spans[k].skipOutput <= j /\ j < spans[k].skipOutput + spans[k].read}

\* output[outIdx] += monoBuf[i] * vol over the slots: every source sample is
\* full scale (1.0)
RECURSIVE SumVolumes(_, _)
SumVolumes(list, ks) ==
    IF ks = {} THEN 0
    ELSE LET k == CHOOSE x \in ks : TRUE
         IN list[k].volume + SumVolumes(list, ks \ {k})

\* renderFrames(output, numFrames, positionFrames): per output frame the left
\* and right sample (thousandths), the sum before the tanh pass, and the
\* <<slot, source frame>> pairs that were added
renderFrames(list, numFrames, positionFrames) ==
    LET spans == [k \in 1..Len(list) |->
                    SlotSpan(list[k], numFrames, positionFrames)]
    IN [j \in 0..(numFrames - 1) |->
          LET ks == Contributors(spans, j)
              sum == SumVolumes(list, ks)
          IN [l    |-> IF list = <<>> THEN 0 ELSE SoftClip(sum),
              r    |-> IF list = <<>> THEN 0 ELSE SoftClip(sum),
              sum  |-> sum,
              from |-> {<<k, spans[k].sourceStart + (j - spans[k].skipOutput)>>
                        : k \in ks}]]

CallNone == [op |-> "none", id |-> 0, file |-> "none", ret |-> TRUE,
             mapped |-> FALSE, value |-> 0, numFrames |-> 0, pos |-> 0,
             out |-> <<>>, spans |-> <<>>]

\* AudioEngine::addTrack: mixer_->addTrack(...) (open the source, build the
\* slot, copy the active list into the inactive one, push_back,
\* commitToActive), then totalFrames.store(computeTotalFrames()) if ok
AddTrackCall(id, file, durationMs, offsetMs, trimStartMs, trimEndMs, volume, muted) ==
    LET src == WavOpen(file)
        inactive == OtherList(mxActive)
        q == Append(mxLists[mxActive],
                    NewSlot(id, src, durationMs, offsetMs, trimStartMs,
                            trimEndMs, volume, muted))
    IN IF OpenFailed(src)
         THEN /\ mxCall' = [CallNone EXCEPT !.op = "addTrack", !.id = id,
                               !.file = file, !.ret = FALSE,
                               !.mapped = WavClose(src).mapped]
              /\ UNCHANGED <<mxLists, mxActive, tp>>
         ELSE /\ Len(mxLists[mxActive]) < MaxMixTracks
              /\ mxLists' = [mxLists EXCEPT ![inactive] = q]
              /\ mxActive' = inactive
              /\ tp' = [tp EXCEPT !.totalFrames = computeTotalFrames(q)]
              /\ mxCall' = [CallNone EXCEPT !.op = "addTrack", !.id = id,
                                            !.file = file,
                                            !.mapped = src.mapped]

TAddTrack ==
    /\ EngineReady
    /\ \E id \in TrackIds, file \in AddFiles, durationMs \in DurationArgs,
          offsetMs \in MsArgs, trimStartMs \in MsArgs, trimEndMs \in MsArgs,
          volume \in AddVolumes, muted \in AddMuted :
         AddTrackCall(id, file, durationMs, offsetMs, trimStartMs, trimEndMs,
                      volume, muted)
    /\ UNCHANGED <<po, perr, pcb, pe, ectl, tracks, pg, wav, nonDataVars>>

\* addTrack of a whole WAV file of MaxTrackMs milliseconds at offset 0, with
\* any volume and mute flag
TAddTrackWhole ==
    /\ EngineReady
    /\ \E id \in TrackIds, volume \in Volumes, muted \in BOOLEAN :
         AddTrackCall(id, "full", MaxTrackMs, 0, 0, 0, volume, muted)
    /\ UNCHANGED <<po, perr, pcb, pe, ectl, tracks, pg, wav, nonDataVars>>

\* AudioEngine::removeTrack: mixer_->removeTrack(trackId) (copy, erase,
\* commitToActive), then totalFrames.store(computeTotalFrames())
TRemoveTrack ==
    /\ EngineReady
    /\ \E id \in TrackIds :
         LET inactive == OtherList(mxActive)
             q == RemoveTrackId(mxLists[mxActive], id)
         IN /\ mxLists' = [mxLists EXCEPT ![inactive] = q]
            /\ mxActive' = inactive
            /\ tp' = [tp EXCEPT !.totalFrames = computeTotalFrames(q)]
            /\ mxCall' = [CallNone EXCEPT !.op = "removeTrack", !.id = id]
    /\ UNCHANGED <<po, perr, pcb, pe, ectl, tracks, pg, wav, nonDataVars>>

\* AudioEngine::removeAllTracks: mixer_->removeAllTracks() (clear the inactive
\* list, commitToActive), then totalFrames, posFrames := 0, playing := false
TRemoveAllTracks ==
    /\ EngineReady
    /\ mxLists' = [mxLists EXCEPT ![OtherList(mxActive)] = <<>>]
    /\ mxActive' = OtherList(mxActive)
    /\ tp' = [tp EXCEPT !.totalFrames = 0, !.posFrames = 0, !.playing = FALSE]
    /\ mxCall' = [CallNone EXCEPT !.op = "removeAllTracks"]
    /\ UNCHANGED <<po, perr, pcb, pe, ectl, tracks, pg, wav, nonDataVars>>

\* for (auto& slot : *list) if (slot->trackId == trackId) { store; return; }:
\* the first slot with this id gets the value
RECURSIVE SetFirst(_, _, _, _)
SetFirst(list, id, field, v) ==
    IF list = <<>> THEN <<>>
    ELSE IF Head(list).trackId = id
      THEN <<[Head(list) EXCEPT ![field] = v]>> \o Tail(list)
    ELSE <<Head(list)>> \o SetFirst(Tail(list), id, field, v)

\* The store goes to the TrackSlot object, which both vectors point to: after
\* addTrack the other vector is a prefix of the active one, after removeTrack
\* it is the active one plus the removed slots, so the object found in the
\* active list is the first slot with this id of the other list too, if the
\* active list has one.
SetInSlot(id, field, v) ==
    IF \E k \in 1..Len(mxLists[mxActive]) : mxLists[mxActive][k].trackId = id
      THEN mxLists' = [l \in {"A", "B"} |-> SetFirst(mxLists[l], id, field, v)]
      ELSE UNCHANGED mxLists

\* AudioEngine::setTrackVolume: if (mixer_) mixer_->setTrackVolume(id, volume)
TSetTrackVolume ==
    /\ EngineReady
    /\ \E id \in TrackIds, volume \in Volumes :
         /\ SetInSlot(id, "volume", volume)
         /\ mxCall' = [CallNone EXCEPT !.op = "setTrackVolume", !.id = id,
                                       !.value = volume]
    /\ UNCHANGED <<mxActive, wav, playVars, nonDataVars>>

\* AudioEngine::setTrackMuted: if (mixer_) mixer_->setTrackMuted(id, muted)
TSetTrackMuted ==
    /\ EngineReady
    /\ \E id \in TrackIds, muted \in BOOLEAN :
         /\ SetInSlot(id, "muted", muted)
         /\ mxCall' = [CallNone EXCEPT !.op = "setTrackMuted", !.id = id,
                                       !.value = IF muted THEN 1 ELSE 0]
    /\ UNCHANGED <<mxActive, wav, playVars, nonDataVars>>

\* TrackMixer::renderFrames(output, numFrames, positionFrames) on the active list
TRender ==
    /\ EngineReady
    /\ \E numFrames \in FrameCounts, positionFrames \in RenderPositions :
         mxCall' = [CallNone EXCEPT !.op = "render", !.numFrames = numFrames,
                      !.pos = positionFrames,
                      !.out = renderFrames(mxLists[mxActive], numFrames,
                                           positionFrames),
                      !.spans = [k \in 1..Len(mxLists[mxActive]) |->
                                   SlotSpan(mxLists[mxActive][k], numFrames,
                                            positionFrames)]]
    /\ UNCHANGED <<mxLists, mxActive, wav, playVars, nonDataVars>>

\* addTrack of a WAV file of LongMs milliseconds as the only track: the
\* caller's durationMs is the file's or one more, trimStartMs is any int64_t
\* the caller passes, also a negative one
LongTrims == {-1, 0, 1}
TAddTrackLong ==
    /\ EngineReady
    /\ mxLists[mxActive] = <<>>
    /\ \E durationMs \in {LongMs, LongMs + 1}, offsetMs \in MsArgs,
          trimStartMs \in LongTrims, volume \in Volumes :
         AddTrackCall(1, "long", durationMs, offsetMs, trimStartMs, 0, volume, FALSE)
    /\ UNCHANGED <<po, perr, pcb, pe, ectl, tracks, pg, wav, nonDataVars>>

\* renderFrames with the block sizes around kMaxFramesPerCallback, at
\* positions before, inside and at the end of a long track
BlockFrameCounts == {0, BurstFrames, kMaxFramesPerCallback,
                     kMaxFramesPerCallback + 1}
BlockPositions == {0, msToFrames(1), msToFrames(LongMs) - BurstFrames,
                   msToFrames(LongMs + 1)}
TRenderBlock ==
    /\ EngineReady
    /\ \E numFrames \in BlockFrameCounts, positionFrames \in BlockPositions :
         mxCall' = [CallNone EXCEPT !.op = "render", !.numFrames = numFrames,
                      !.pos = positionFrames,
                      !.out = renderFrames(mxLists[mxActive], numFrames,
                                           positionFrames),
                      !.spans = [k \in 1..Len(mxLists[mxActive]) |->
                                   SlotSpan(mxLists[mxActive][k], numFrames,
                                            positionFrames)]]
    /\ UNCHANGED <<mxLists, mxActive, wav, playVars, nonDataVars>>

\* ---------------------------------------------- WavTrackSource::open, bytes
\* INT32_MAX: offset, chunkSize, dataSize and dataOffset_ are int32_t
MaxInt32 == 2147483647

\* The files open() is given: whether ::open finds it, st_size, whether mmap
\* succeeds, whether bytes 0..3 and 8..11 are "RIFF" and "WAVE", and the
\* chunk header at byte 12 and the one behind the first chunk: is the tag
\* "data", and the 32-bit length field read as int32_t.  Every other byte
\* is zero.
FileSizes == {43, 44, 60}
\* length fields: zero, odd, a 16-byte fmt chunk, negative as int32_t
\* (0xFFFFFFF8, 0xFFFFFFF7, 0xFFFFFFE8), and 0x7FFFFFFF, far past the end
ChunkSizes == {0, 1, 16, -8, -9, -24, MaxInt32}
WavFiles ==
    [exists : BOOLEAN, size : FileSizes, mmapOk : BOOLEAN, riff : BOOLEAN,
     data1 : BOOLEAN, size1 : ChunkSizes, data2 : BOOLEAN, size2 : ChunkSizes]
NoWavFile == [exists |-> FALSE, size |-> 43, mmapOk |-> FALSE, riff |-> FALSE,
              data1 |-> FALSE, size1 |-> 0, data2 |-> FALSE, size2 |-> 0]

\* Where the second chunk header lies: behind the first chunk's body and pad
\* byte (-1: the first length field does not describe a body in the file)
SecondHeader(f) ==
    IF f.size1 \in 0..16 THEN 12 + 8 + f.size1 + (f.size1 % 2) ELSE -1

\* The 8 header bytes at `offset`: memcmp(header + offset, "data", 4) == 0 and
\* the little-endian int32_t at offset + 4
HeaderAt(f, offset) ==
    IF offset = 12 THEN [data |-> f.data1, size |-> f.size1]
    ELSE IF offset = SecondHeader(f) THEN [data |-> f.data2, size |-> f.size2]
    ELSE [data |-> FALSE, size |-> 0]

\* The members of WavTrackSource: mappedData_ != nullptr, mappedSize_,
\* pcmData_ != nullptr, totalFrames_, dataOffset_
WavClosed == [mappedData |-> FALSE, mappedSize |-> 0, pcmData |-> FALSE,
              totalFrames |-> 0, dataOffset |-> 0]
WavIdle == [pc |-> "idle", file |-> NoWavFile, src |-> WavClosed, offset |-> 0,
            dataSize |-> 0, ret |-> FALSE, oob |-> FALSE]

\* offset += 8 + chunkSize; if (chunkSize % 2 != 0) offset++ in int32_t.
\* Signed overflow is undefined: the sum wraps, or is kept in a wider
\* register and lies beyond every file (MaxInt32 stands for that value).
NextOffsets(offset, chunkSize) ==
    LET pad == IF chunkSize % 2 # 0 THEN 1 ELSE 0
    IN IF chunkSize > 0 /\ chunkSize > ((MaxInt32 - 8) - pad) - offset
         THEN {(((offset + 8 + pad) - MaxInt32) - 1) + ((chunkSize - MaxInt32) - 1),
               MaxInt32}
         ELSE {offset + 8 + chunkSize + pad}

\* if (dataOffset_ + dataSize > static_cast<int32_t>(mappedSize_)): the sum is
\* int32_t; on overflow it wraps (negative: the test is false) or is kept
\* wide (the test is true)
ClampTests(dataOffset, dataSize, mappedSize) ==
    IF dataSize > 0 /\ dataOffset > 0 /\ dataSize > MaxInt32 - dataOffset
      THEN {FALSE, TRUE}
      ELSE {dataOffset + dataSize > mappedSize}

\* open(filePath) up to the RIFF/WAVE test: close(); ::open; fstat and the
\* 44-byte test; mmap; memcmp "RIFF", "WAVE" (close() and false if not)
WOpen ==
    /\ wav.pc = "idle"
    /\ \E f \in WavFiles :
         IF ~f.exists \/ f.size < 44 \/ ~f.mmapOk
           THEN wav' = [WavIdle EXCEPT !.pc = "done", !.file = f]
           ELSE IF ~f.riff
             THEN wav' = [WavIdle EXCEPT !.pc = "done", !.file = f,
                                         !.src = WavClosed]
             ELSE wav' = [WavIdle EXCEPT !.pc = "walk", !.file = f,
                            !.src = [WavClosed EXCEPT !.mappedData = TRUE,
                                                      !.mappedSize = f.size],
                            !.offset = 12]
    /\ UNCHANGED <<mxLists, mxActive, mxCall, playVars, nonDataVars>>

\* One iteration of while (offset + 8 <= static_cast<int32_t>(mappedSize_)).
\* With offset < 0 the bytes lie before the mapping: the read faults, or
\* yields a "data" tag, or a length that ends the walk.
WWalk ==
    /\ wav.pc = "walk"
    /\ wav.offset <= wav.src.mappedSize - 8
    /\ IF wav.offset < 0
         THEN \/ wav' = [wav EXCEPT !.pc = "crashed", !.oob = TRUE]
              \/ wav' = [wav EXCEPT !.pc = "finish", !.oob = TRUE,
                                    !.src.dataOffset = wav.offset + 8,
                                    !.dataSize = 0]
              \/ wav' = [wav EXCEPT !.oob = TRUE, !.offset = wav.src.mappedSize]
         ELSE LET h == HeaderAt(wav.file, wav.offset) IN
                IF h.data
                  THEN wav' = [wav EXCEPT !.pc = "finish",
                                          !.src.dataOffset = wav.offset + 8,
                                          !.dataSize = h.size]
                  ELSE \E o \in NextOffsets(wav.offset, h.size) :
                         wav' = [wav EXCEPT !.offset = o]
    /\ UNCHANGED <<mxLists, mxActive, mxCall, playVars, nonDataVars>>

\* The loop ends without a 'data' chunk: close(); return false
WNoData ==
    /\ wav.pc = "walk"
    /\ wav.offset > wav.src.mappedSize - 8
    /\ wav' = [wav EXCEPT !.pc = "done", !.src = WavClosed, !.ret = FALSE]
    /\ UNCHANGED <<mxLists, mxActive, mxCall, playVars, nonDataVars>>

\* Clamp dataSize to the file; pcmData_ = header + dataOffset_;
\* totalFrames_ = dataSize / (kChannelCount * kBytesPerSample); return true
WFinish ==
    /\ wav.pc = "finish"
    /\ \E over \in ClampTests(wav.src.dataOffset, wav.dataSize, wav.src.mappedSize) :
         LET dataSize == IF over THEN wav.src.mappedSize - wav.src.dataOffset
                         ELSE wav.dataSize
         IN wav' = [wav EXCEPT !.pc = "done", !.ret = TRUE, !.dataSize = dataSize,
                      !.src.pcmData = TRUE,
                      !.src.totalFrames =
                          TruncDiv(dataSize, kChannelCount * kBytesPerSample)]
    /\ UNCHANGED <<mxLists, mxActive, mxCall, playVars, nonDataVars>>

\* The caller drops the source: ~WavTrackSource calls close()
WDestroy ==
    /\ wav.pc = "done"
    /\ wav' = WavIdle
    /\ UNCHANGED <<mxLists, mxActive, mxCall, playVars, nonDataVars>>

\* TrackMixer(): both lists empty, activeList_{&listA_}
DataInit ==
    /\ mxLists = [l \in {"A", "B"} |-> <<>>]
    /\ mxActive = "A"
    /\ mxCall = CallNone
    /\ wav = WavIdle

\* ------------------------------------------------------------ the specs
InitMixer == RingInit /\ MixInit /\ CapInit /\ PlayInit /\ DataInit

NextMixer ==
    \/ AddTrackOpenFails \/ AddTrackOpen \/ RemoveTrackCall \/ RemoveAllCall
    \/ MutLock \/ MutLoadActive \/ MutCopy \/ MutEdit \/ CommitToActive \/ MutUnlock
    \/ RenderLoad \/ RenderSlot \/ RenderFinish

SpecMixer == InitMixer /\ [][NextMixer]_vars

InitRing == RingInit /\ MixInit /\ CapInit /\ PlayInit /\ DataInit

NextRing ==
    \/ ProducerCall \/ WriteLoadW \/ WriteLoadR \/ WriteCopy \/ WriteStore
    \/ ProducerReturn
    \/ ConsumerCall \/ ReadLoadR \/ ReadLoadW \/ ReadCopy \/ ReadStore
    \/ ConsumerReturn
    \/ ObserverCall \/ AvailLoadFirst \/ AvailLoadSecond \/ ObserverReturn

SpecRing == InitRing /\ [][NextRing]_vars

InitCapture == RingInit /\ MixInit /\ CapInit /\ PlayInit /\ DataInit

NextCapture ==
    \/ StartCall \/ StartResetW \/ StartResetR \/ StartFlags \/ StartOpenFile
    \/ StartOpenStream \/ StartConsuming \/ StartRequestStart \/ StartActivate
    \/ StartFail
    \/ StopConsSignal \/ StopConsJoin \/ StopConsClose
    \/ StopCall \/ StopCloseStream \/ StopReturn
    \/ AwaitCall \/ AwaitPoll \/ OpenWriteGate
    \/ CbPeakHot \/ CbGate \/ CbReturn \/ HwError \/ OnErrorAfterClose
    \/ WriteLoadW \/ WriteLoadR \/ WriteCopy \/ WriteStore
    \/ WriterCheckRunning \/ WriterGotChunk \/ WriterCount
    \/ WriterDrainAvail \/ WriterDrainTest \/ WriterDrainGot
    \/ ReadLoadR \/ ReadLoadW \/ ReadCopy \/ ReadStore
    \/ AvailLoadFirst \/ AvailLoadSecond

SpecCapture == InitCapture /\ [][NextCapture]_vars

InitPlayback == RingInit /\ MixInit /\ CapInit /\ PlayInit /\ DataInit

NextPlayback ==
    \/ EInitialize
    \/ EPlayCall \/ EPlayLoadTotal \/ EPlayLoadLoop \/ EPlayStorePos
    \/ EPlayStorePlaying
    \/ EPause \/ EPauseStore \/ ESeekCall \/ ESeekStore
    \/ ESetLoopRegion \/ EClearLoopRegion \/ ELoopStoreEnd \/ ESetRecording
    \/ EAddTrack \/ ERemoveTrack \/ ETotalStore
    \/ ERemoveAllTracks \/ ERemoveAllPos \/ ERemoveAllPlaying
    \/ PCbLoadPlaying \/ PCbSilence \/ PCbSilentReturn \/ PCbLoadPos \/ PCbLoadTotal \/ PCbRender
    \/ PCbLoadLoopEnd \/ PCbLoadLoopStart \/ PCbLoadRecording
    \/ PCbStopPlaying \/ PCbStopPos \/ PCbCommit

SpecPlayback == InitPlayback /\ [][NextPlayback]_vars

\* The playback engine with a failing output device: the transport is driven
\* by play, pause and the track list only.
InitReopen == RingInit /\ MixInit /\ CapInit /\ PlayInit /\ DataInit

NextReopen ==
    \/ EInitialize
    \/ EPlayCall \/ EPlayLoadTotal \/ EPlayLoadLoop \/ EPlayStorePos
    \/ EPlayStorePlaying \/ EPause \/ EPauseStore
    \/ EAddTrack \/ ETotalStore
    \/ ERemoveAllTracks \/ ERemoveAllPos \/ ERemoveAllPlaying
    \/ PCbLoadPlaying \/ PCbSilence \/ PCbSilentReturn \/ PCbLoadPos
    \/ PCbLoadTotal \/ PCbRender
    \/ PCbLoadLoopEnd \/ PCbLoadLoopStart \/ PCbLoadRecording
    \/ PCbStopPlaying \/ PCbStopPos \/ PCbCommit
    \/ PHwError \/ POnErrorAfterClose \/ PErrReset \/ PErrOpen \/ PErrStart

SpecReopen == InitReopen /\ [][NextReopen]_vars

\* The control thread alone drives the transport: no output callback runs.
InitControl == RingInit /\ MixInit /\ CapInit /\ PlayInit /\ DataInit

NextControl ==
    \/ EInitialize
    \/ EPlayCall \/ EPlayLoadTotal \/ EPlayLoadLoop \/ EPlayStorePos
    \/ EPlayStorePlaying
    \/ EPause \/ EPauseStore \/ ESeekCall \/ ESeekStore
    \/ ESetLoopRegion \/ EClearLoopRegion \/ ELoopStoreEnd \/ ESetRecording
    \/ EAddTrack \/ ERemoveTrack \/ ETotalStore
    \/ ERemoveAllTracks \/ ERemoveAllPos \/ ERemoveAllPlaying

SpecControl == InitControl /\ [][NextControl]_vars

\* The control thread edits the track list and the mixer renders it, one
\* call at a time.
InitTracks == RingInit /\ MixInit /\ CapInit /\ PlayInit /\ DataInit

NextTracks ==
    \/ EInitialize
    \/ TAddTrack \/ TRemoveTrack \/ TRemoveAllTracks

SpecTracks == InitTracks /\ [][NextTracks]_vars

\* renderFrames as a function of the active list: the engine is initialised
\* and successful addTrack calls have built a list of up to MaxMixTracks
\* slots, the k-th with track id k.
RenderSlots(id) ==
    {NewSlot(id, WavOpen(file), durationMs, offsetMs, trimStartMs, trimEndMs,
             volume, muted) :
        file \in {"full", "short"}, durationMs \in DurationArgs,
        offsetMs \in MsArgs, trimStartMs \in MsArgs, trimEndMs \in MsArgs,
        volume \in Volumes, muted \in BOOLEAN}

RenderLists ==
    {<<>>} \cup {<<a>> : a \in RenderSlots(1)}
           \cup {<<a, b>> : a \in RenderSlots(1), b \in RenderSlots(2)}

InitRender ==
    /\ RingInit /\ MixInit /\ CapInit
    /\ \E list \in RenderLists :
         LET n == Len(list)
             active == IF n % 2 = 1 THEN "B" ELSE "A"
         IN /\ mxLists = [l \in {"A", "B"} |->
                            IF l = active THEN list
                            ELSE IF n = 0 THEN <<>> ELSE SubSeq(list, 1, n - 1)]
            /\ mxActive = active
            /\ tp = [TransportInit EXCEPT !.totalFrames = computeTotalFrames(list)]
    /\ mxCall = CallNone
    /\ wav = WavIdle
    /\ po = [init |-> TRUE, stream |-> TRUE, hw |-> "started"]
    /\ perr = FALSE
    /\ pcb = PCbIdle
    /\ pe = [pc |-> "idle"]
    /\ ectl = EctlIdle
    /\ tracks = <<>>
    /\ pg = [raised |-> 0, delivered |-> 0, attempts |-> 0]

NextRender == TRender

SpecRender == InitRender /\ [][NextRender]_vars

\* Per-track volume and mute: whole-file tracks are added and removed, their
\* volume and mute flag are set, and the mixer renders.
InitSet == RingInit /\ MixInit /\ CapInit /\ PlayInit /\ DataInit

NextSet ==
    \/ EInitialize
    \/ TAddTrackWhole \/ TRemoveTrack \/ TRemoveAllTracks
    \/ TSetTrackVolume \/ TSetTrackMuted
    \/ TRender

SpecSet == InitSet /\ [][NextSet]_vars

\* Large blocks: one long track, added with any trim, is rendered in blocks
\* of up to kMaxFramesPerCallback + 1 frames.
InitBlock == RingInit /\ MixInit /\ CapInit /\ PlayInit /\ DataInit

NextBlock == EInitialize \/ TAddTrackLong \/ TRenderBlock

SpecBlock == InitBlock /\ [][NextBlock]_vars

\* WavTrackSource::open on one file after another.
InitWav == RingInit /\ MixInit /\ CapInit /\ PlayInit /\ DataInit

NextWav == WOpen \/ WWalk \/ WNoData \/ WFinish \/ WDestroy

SpecWav == InitWav /\ [][NextWav]_vars

\* open() is not preempted forever: a running call takes its next step.
SpecWavFair == SpecWav /\ WF_vars(WWalk \/ WNoData \/ WFinish)

\* The control thread is preempted inside the locked section of its second
\* track-list call while the three real-time threads run: one track (slot 1,
\* track id 1, 1 ms) has been added, play() has returned, a recording session
\* is live with the write gate open, and addTrack, removeTrack or
\* removeAllTracks has just taken editMutex_.  The lock is not released.
InitLock ==
    /\ RingInit /\ DataInit
    /\ lists = [A |-> <<>>, B |-> <<1>>]
    /\ activeList = "B"
    /\ editMutex = TRUE
    /\ \E op \in {"add", "remove", "removeAll"}, id \in TrackIds :
         /\ op = "removeAll" => id = 1
         /\ mut = [MutIdle EXCEPT !.pc = "load", !.op = op,
                                  !.id = IF op = "removeAll" THEN 0 ELSE id,
                                  !.slot = IF op = "add" THEN 2 ELSE 0]
         /\ slotTrack = [x \in Slots |-> IF x = 1 THEN 1
                                         ELSE IF x = 2 /\ op = "add" THEN id ELSE 0]
         /\ srcState = [x \in Slots |-> IF x = 1 \/ (x = 2 /\ op = "add")
                                          THEN "mapped" ELSE "none"]
    /\ unmaps = [x \in Slots |-> 0]
    /\ rnd = RndIdle
    /\ raced = FALSE
    /\ freedInFlight = FALSE
    /\ rs = [active |-> TRUE, pipelineHot |-> FALSE, writeGateOpen |-> TRUE,
             peakAmplitude |-> 0, stream |-> TRUE]
    /\ hw = "started"
    /\ errPending = FALSE
    /\ cb = CbIdle
    /\ ctl = CtlIdle
    /\ ww = [running |-> TRUE, file |-> 1, totalBytesWritten |-> 0]
    /\ wr = [pc |-> "loop"]
    /\ files = [f \in 1..MaxStarts |->
                 IF f = 1 THEN [NoFile EXCEPT !.state = "open"] ELSE NoFile]
    /\ crashed = "none"
    /\ starts = 1
    /\ gh = [cbRan |-> FALSE, gated |-> {}, sessionLive |-> TRUE, drained |-> FALSE]
    /\ tp = [TransportInit EXCEPT !.playing = TRUE, !.totalFrames = msToFrames(1)]
    /\ po = [init |-> TRUE, stream |-> TRUE, hw |-> "started"]
    /\ perr = FALSE
    /\ pcb = PCbIdle
    /\ pe = [pc |-> "idle"]
    /\ ectl = EctlIdle
    /\ tracks = <<[trackId |-> 1, offsetFrames |-> 0, effectiveFrames |-> msToFrames(1)]>>
    /\ pg = [raised |-> 0, delivered |-> 0, attempts |-> 0]

\* a step of the audio thread inside renderFrames
RenderStep == RenderLoad \/ RenderSlot \/ RenderFinish

\* a step of the audio thread inside OboePlaybackStream::onAudioReady
OutputCallbackStep ==
    \/ PCbLoadPlaying \/ PCbSilence \/ PCbSilentReturn \/ PCbLoadPos
    \/ PCbLoadTotal \/ PCbRender
    \/ PCbLoadLoopEnd \/ PCbLoadLoopStart \/ PCbLoadRecording
    \/ PCbStopPlaying \/ PCbStopPos \/ PCbCommit

\* a step of the audio thread inside OboeRecordingStream::onAudioReady
InputCallbackStep ==
    \/ CbPeakHot \/ CbGate \/ CbReturn
    \/ WriteLoadW \/ WriteLoadR \/ WriteCopy \/ WriteStore

NextLock ==
    \/ MutLoadActive \/ MutCopy \/ MutEdit \/ CommitToActive
    \/ RenderStep
    \/ OutputCallbackStep
    \/ InputCallbackStep

SpecLock == InitLock /\ [][NextLock]_vars

\* ------------------------------------------------------ claims: SpecRing
\* Number of samples in the ring as the counters see it (size_t arithmetic).
RingFill == SubSz(writePos, readPos)

\* C1: with one producer in write() and one consumer in read(), interleaved
\* at their atomic loads and stores, 0 <= writePos_ - readPos_ <= N in every
\* reachable state, and write() never stores into a slot that still holds a
\* sample the consumer has not read.
C1_RingBound ==
    /\ readPos <= writePos
    /\ RingFill \in 0..N
    /\ ~overwrote

\* C1 witness: the ring is full after the indices have wrapped, while the
\* consumer is inside read().
C1_Witness ==
    /\ RingFill = N
    /\ writePos > N
    /\ cons.pc = "r_copy"
    /\ ~overwrote

\* C4: the samples returned by read() are a prefix of the samples accepted by
\* write(), same order and values; a write() stores exactly its leading
\* min(count, N - (writePos - readPos)) samples, returns that number, drops
\* the rest, never overwrites unread data, and never waits.
C4_FifoDropNewest ==
    /\ IsPrefix(consumed, accepted)
    /\ cons.pc = "r_copy" => IsPrefix(consumed \o cons.out, accepted)
    /\ prod.pc = "w_done" =>
          /\ prod.ret = Min(Len(prod.data), N - (prod.w - prod.r))
          /\ prod.ret <= Len(accepted)
          /\ SubSeq(accepted, Len(accepted) - prod.ret + 1, Len(accepted))
                = SubSeq(prod.data, 1, prod.ret)
    /\ ~overwrote
    /\ prod.pc \in {"w_loadW", "w_loadR", "w_copy"} =>
          ENABLED (WriteLoadW \/ WriteLoadR \/ WriteCopy \/ WriteStore)

\* C4 witness: a write() has just dropped the tail of its block because the
\* ring was short of space, after the consumer already took samples out.
C4_Witness ==
    /\ prod.pc = "w_done"
    /\ prod.ret > 0
    /\ prod.ret < Len(prod.data)
    /\ Len(consumed) > 0

\* C5: read(count) returns min(count, samples accepted and not yet consumed
\* when it looked): fewer than count on underrun, 0 when empty; the total
\* returned by read() never exceeds the total accepted by write().
C5_ReadBounded ==
    /\ Len(consumed) <= Len(accepted)
    /\ cons.pc = "r_done" =>
          /\ cons.ret = Len(cons.out)
          /\ cons.ret = Min(cons.count, cons.avail)
          /\ cons.ret <= cons.count
          /\ cons.avail = 0 => cons.ret = 0
          /\ cons.avail < cons.count => cons.ret < cons.count

\* C5 witness: an underrun, a read() that asked for more than was there and
\* got what was there.
C5_Witness ==
    /\ cons.pc = "r_done"
    /\ cons.ret > 0
    /\ cons.ret < cons.count
    /\ prod.pc = "w_copy"

\* C6: every value availableToRead() returns is in [0, N], also when its
\* two loads interleave with a concurrent write() and a concurrent read().
C6_AvailableInRange ==
    obs.pc = "a_done" => obs.ret \in 0..N

\* ----------------------------------------------------- claims: SpecMixer
\* C2: for every interleaving of one renderFrames call with serialized
\* addTrack / removeTrack / removeAllTracks calls, no mutator writes the
\* slot list the render iterates between the render's load of activeList_
\* and its last access, and what the render reads is the list as it stood
\* when it was published, never a partially rewritten one.
C2_AtomicListVisibility ==
    /\ ~raced
    /\ RenderInFlight => rnd.seen = SubSeq(rnd.snapshot, 1, Len(rnd.seen))

\* C3: a WavTrackSource is never unmapped while a renderFrames call that
\* loaded a list containing its TrackSlot is in flight, and each mapping is
\* unmapped at most once.
C3_SourceLifetime ==
    /\ ~freedInFlight
    /\ \A x \in Slots : unmaps[x] <= 1

\* --------------------------------------------------- claims: SpecCapture
\* The file the control thread's last stop() found open in file_.
StopReturned == ctl.op = "stop" /\ ctl.pc = "idle"
PayloadTags(f) == [k \in 1..Len(files[f].payload) |-> files[f].payload[k].tag]

C8_HotHandshake ==
    [][ /\ (ctl.pc = "s_flags" /\ ctl'.pc = "s_open") => ~rs'.pipelineHot
        /\ (rs.pipelineHot /\ ~rs'.pipelineHot) => ctl.pc = "s_flags"
        /\ (~rs.pipelineHot /\ rs'.pipelineHot) => (cb.pc = "idle" /\ cb'.pc = "gate")
        /\ (cb.pc = "idle" /\ cb'.pc = "gate") => rs'.pipelineHot
        /\ rs'.pipelineHot = gh'.cbRan
        /\ (ctl.pc = "aw_poll" /\ ctl'.pc = "idle") =>
              /\ (ctl'.ret = 1) = rs.pipelineHot
              /\ (ctl'.ret = 1) => gh.cbRan
              /\ ctl'.ret \in {0, 1}
      ]_vars

\* C8 witness: awaitFirstBuffer has returned true in a second session, whose
\* start() cleared the flag the first session had set.
C8_Witness ==
    /\ ctl.op = "await"
    /\ ctl.pc = "idle"
    /\ ctl.ret = 1
    /\ starts = 2
    /\ rs.active
    /\ files[1].state = "closed"

\* C9: every stop() that follows a successful start(), whatever happened in
\* between (gate, callbacks, input error callback), closes the hardware
\* stream, makes the writer drain, patch the header and close the file, and
\* returns totalBytesWritten*1000/(44100*2), or -1 only when no byte was
\* written.
C9_StopContract ==
    (StopReturned /\ ctl.live) =>
        /\ ~rs.stream
        /\ hw = "closed"
        /\ wr.pc = "none"
        /\ ww.file = 0
        /\ ctl.file # 0
        /\ files[ctl.file].state = "closed"
        /\ files[ctl.file].patches = 1
        /\ ctl.ret = StopResult(ww.totalBytesWritten)
        /\ (ctl.ret = -1) = (ww.totalBytesWritten = 0)

\* C10: when stop() on an active session returns, the ring buffer is empty
\* and every sample a callback's write() accepted during the session is in
\* the file exactly once and in order, converted:
\* totalBytesWritten = 2 * (sum of the write() return values).
C10_DrainComplete ==
    (StopReturned /\ ctl.tore) =>
        /\ RingFill = 0
        /\ consumed = accepted
        /\ ww.totalBytesWritten = 2 * Len(accepted)
        /\ ctl.file # 0
        /\ files[ctl.file].payload = ConvertChunk(accepted)
        /\ files[ctl.file].dataSize = 2 * Len(accepted)
        /\ wr.pc = "none"

\* C10 witness: a stop() returned after the drain pass had to append samples
\* the main loop had not taken, more than one chunk of them in the file.
C10_Witness ==
    /\ StopReturned
    /\ ctl.tore
    /\ gh.drained
    /\ Len(accepted) > ChunkSamples
    /\ ctl.ret = 0

\* C11: over every sequence of start(), stop(), callbacks and error callbacks
\* at most one stream can call write and at most one writer thread exists;
\* startConsuming is never invoked while a writer thread of an earlier start()
\* is still running (which would end in std::terminate).
C11_SingleProducerConsumer ==
    /\ (ctl.pc = "s_consume" /\ ww.file # 0) => wr.pc = "none"
    /\ crashed # "std::terminate"

\* C12: the ringBuffer_.reset() and WavWriter::open of start() never run
\* while a callback of a previous session can still call write or while the
\* previous session's writer thread is still running.
C12_QuiescentReset ==
    ctl.pc \in {"s_resetW", "s_resetR", "s_flags", "s_open"} =>
        /\ wr.pc = "none"
        /\ cons.pc = "idle"
        /\ hw # "started"
        /\ cb.pc = "idle"

PCbStep == pcb' # pcb
\* A step taken by the error thread inside onErrorAfterClose.
PErrStep == pe' # pe

\* C14: each onErrorAfterClose delivered to the playback stream makes exactly
\* one attempt to reopen and restart the output stream; the attempt leaves
\* every Transport field and the track list unchanged; after a failed attempt
\* the stream stays closed and no further attempt is made.
C14_ReopenOnce ==
    /\ [](/\ pg.attempts <= pg.delivered
          /\ pg.delivered <= pg.attempts + 1
          /\ pe.pc = "idle" => pg.attempts = pg.delivered
          /\ (pe.pc = "idle" /\ ~perr /\ pg.delivered >= 1 /\ po.hw # "started")
                => (~po.stream /\ po.hw = "closed"))
    /\ [][PErrStep => (tp' = tp /\ tracks' = tracks)]_vars

\* C14 witness: one error was delivered during playback, its single reopen
\* succeeded, and the transport still plays from a position past zero.
C14_Witness ==
    /\ pg.delivered = 1
    /\ pg.attempts = 1
    /\ pe.pc = "idle"
    /\ po.hw = "started"
    /\ tp.playing
    /\ tp.posFrames > 0
    /\ tracks # <<>>

\* C15: an output callback that observes playing == false writes
\* 2 * numFrames zero samples, does not call the mixer, and leaves every
\* Transport field unchanged; the mixer is called only past that test.
C15_PausedCallback ==
    [][ /\ (pcb.pc = "idle" /\ PCbStep) =>
              /\ pcb'.pc = (IF tp.playing THEN "pos" ELSE "silence")
              /\ tp' = tp
        /\ (pcb.pc \in {"silence", "silenced"} /\ PCbStep) =>
              /\ tp' = tp
              /\ tracks' = tracks
              /\ ~pcb'.out.mixed
        /\ (pcb.pc = "silence" /\ PCbStep) =>
              /\ pcb'.pc = "silenced"
              /\ pcb'.out = [samples |-> 2 * pcb.numFrames, silent |-> TRUE,
                             mixed |-> FALSE]
        /\ (pcb.pc = "silenced" /\ PCbStep) => pcb'.pc = "idle"
        /\ (PCbStep /\ pcb'.out.mixed /\ ~pcb.out.mixed) => pcb.pc = "render"
      ]_vars

\* C15 witness: playback was paused past position zero and a callback has
\* filled its block with silence, the position untouched.
C15_Witness ==
    /\ pcb.pc = "silenced"
    /\ ~tp.playing
    /\ tp.posFrames > 0
    /\ tp.totalFrames > tp.posFrames
    /\ pcb.out.silent
    /\ ~pcb.out.mixed
    /\ pcb.out.samples = 2 * BurstFrames

\* C16: a callback that wrapped to the loop start does not perform the
\* end-of-timeline stop, whatever totalFrames and the recording flag are.
C16_WrapExcludesAutoStop ==
    pcb.wrapped => pcb.pc \notin {"stopPlaying", "stopPos"}

\* C17: in the callback whose advanced position p first reaches loopEnd, the
\* committed position is loopStart + (p - loopEnd) and lies in
\* [loopStart, loopEnd).
C17_LoopOvershoot ==
    (pcb.wrapped /\ pcb.pc = "commit") =>
        /\ pcb.pos = pcb.loopStart + (pcb.adv - pcb.loopEnd)
        /\ pcb.loopStart <= pcb.pos
        /\ pcb.pos < pcb.loopEnd

\* C18: loopResetCount never decreases, grows by exactly one in every output
\* callback that wraps to the loop start, and is unchanged by everything else.
C18_LoopResetCount ==
    [][ /\ tp'.loopResetCount >= tp.loopResetCount
        /\ (pcb.wrapped /\ pcb'.pc = "idle" /\ pcb.pc # "idle")
              => tp'.loopResetCount = tp.loopResetCount + 1
        /\ ~(pcb.wrapped /\ pcb'.pc = "idle" /\ pcb.pc # "idle")
              => tp'.loopResetCount = tp.loopResetCount
      ]_vars

\* C19: a callback that saw playing true, did not wrap and read recording
\* false stops (playing := false, position := 0) exactly when
\* position + numFrames >= totalFrames; otherwise it commits
\* position + numFrames and does not touch playing.
C19_AutoStop ==
    /\ []((pcb.pc \in {"stopPlaying", "stopPos", "commit"}
             /\ ~pcb.wrapped /\ ~pcb.recording) =>
            /\ (pcb.pc \in {"stopPlaying", "stopPos"}) = (pcb.adv >= pcb.total)
            /\ pcb.pc = "commit" => (pcb.pos = pcb.adv /\ pcb.adv < pcb.total))
    /\ [][ /\ (pcb.pc = "render" /\ PCbStep) => pcb'.adv = pcb.pos + pcb.numFrames
           /\ (pcb.pc = "stopPlaying" /\ PCbStep) =>
                 (~tp'.playing /\ tp'.posFrames = tp.posFrames)
           /\ (pcb.pc = "stopPos" /\ PCbStep) =>
                 (tp'.posFrames = 0 /\ tp'.playing = tp.playing)
           /\ (pcb.pc = "commit" /\ PCbStep) =>
                 (tp'.posFrames = pcb.pos /\ tp'.playing = tp.playing)
         ]_vars

\* C19 witness: with recording off and no loop wrap a callback advanced
\* exactly to totalFrames, has stored playing = false and is about to store
\* position 0.
C19_Witness ==
    /\ pcb.pc = "stopPos"
    /\ ~pcb.wrapped
    /\ ~pcb.recording
    /\ pcb.total > 0
    /\ pcb.adv = pcb.total
    /\ ~tp.playing

\* C20: a callback that reads recording == true never takes the
\* end-of-timeline stop: it commits the advanced position (or the loop start
\* after a wrap), so the position passes totalFrames.
C20_OverdubNoAutoStop ==
    /\ [](/\ pcb.pc \in {"stopPlaying", "stopPos"} => ~pcb.recording
          /\ (pcb.pc = "commit" /\ pcb.recording /\ ~pcb.wrapped)
                => pcb.pos = pcb.adv)
    /\ [][ /\ (pcb.pc = "recording" /\ PCbStep /\ tp.recording) =>
                 (pcb'.pc = "commit" /\ pcb'.recording /\ tp' = tp)
           /\ (PCbStep /\ tp.playing /\ ~tp'.playing) =>
                 (pcb.pc = "stopPlaying" /\ ~pcb.recording)
         ]_vars

\* C20 witness: while recording, a callback that started at or past
\* totalFrames is committing a position further past it.
C20_Witness ==
    /\ pcb.pc = "commit"
    /\ pcb.recording
    /\ ~pcb.wrapped
    /\ pcb.total > 0
    /\ pcb.adv - pcb.numFrames >= pcb.total
    /\ pcb.pos = pcb.adv
    /\ tp.recording
    /\ tp.playing

\* --------------------------------------------------- claims: SpecControl
\* AtomicTransport::hasLoop(): loopStartFrames >= 0 && loopEndFrames > 0
hasLoop(t) == t.loopStartFrames >= 0 /\ t.loopEndFrames > 0

\* The control thread returns from the call `op`.
EReturns(op) == ectl.op = op /\ ectl.pc # "idle" /\ ectl'.pc = "idle"

\* C21: with no callback running, play() returns with playing true and the
\* position it found if that was < totalFrames, else the loop start if a loop
\* is set, else 0; no other Transport field changes.
C21_Play ==
    [][ EReturns("play") =>
          LET b == ectl.before.tp IN
            tp' = [b EXCEPT !.playing = TRUE,
                            !.posFrames =
                               IF b.posFrames < b.totalFrames THEN b.posFrames
                               ELSE IF hasLoop(b) THEN b.loopStartFrames
                               ELSE 0]
      ]_vars

\* C22: with no callback running, seekTo(positionMs) leaves
\* positionFrames = max(0, min(msToFrames(positionMs), totalFrames)), hence
\* within [0, totalFrames], and changes nothing else.
C22_SeekClamp ==
    [][ EReturns("seekTo") =>
          LET b == ectl.before.tp
              f == msToFrames(ectl.arg)
          IN /\ tp' = [b EXCEPT !.posFrames =
                          IF f < 0 THEN 0
                          ELSE IF f > b.totalFrames THEN b.totalFrames ELSE f]
             /\ 0 <= tp'.posFrames
             /\ tp'.posFrames <= tp'.totalFrames
      ]_vars

\* C22 witness: seekTo(-1) during playback from a position past zero has
\* clamped the negative frame position to 0 and is about to store it.
C22_Witness ==
    /\ ectl.pc = "sk_store"
    /\ ectl.arg < 0
    /\ msToFrames(ectl.arg) < 0
    /\ ectl.pos = 0
    /\ tp.posFrames > 0
    /\ tp.playing

\* C23: pause() when playing is already false changes no Transport field;
\* removeTrack(id) for an id not in the active list leaves the track list and
\* every Transport field as they were.
C23_Idempotence ==
    [][ /\ (EReturns("pause") /\ ~ectl.before.tp.playing) =>
              (tp' = ectl.before.tp /\ tracks' = ectl.before.tracks)
        /\ (/\ EReturns("removeTrack")
            /\ \A k \in 1..Len(ectl.before.tracks) :
                   ectl.before.tracks[k].trackId # ectl.arg) =>
              (tp' = ectl.before.tp /\ tracks' = ectl.before.tracks)
      ]_vars

\* C23 witness: during playback of a one-track timeline removeTrack was called
\* with an id that is not in the list; the list is as before and the
\* totalFrames store is pending.
C23_Witness ==
    /\ ectl.pc = "tr_total"
    /\ ectl.op = "removeTrack"
    /\ tracks # <<>>
    /\ tracks = ectl.before.tracks
    /\ \A k \in 1..Len(tracks) : tracks[k].trackId # ectl.arg
    /\ tp.playing
    /\ tp.totalFrames > 0

\* ---------------------------------------------------- claims: SpecTracks
\* The list activeList_ points to.
ActiveSlots == mxLists[mxActive]

\* The largest offsetFrames + effectiveFrames over the slots, 0 for no slot.
MaxEnd(list) ==
    IF list = <<>> THEN 0
    ELSE LET ends == {list[k].offsetFrames + list[k].effectiveFrames :
                         k \in 1..Len(list)}
         IN CHOOSE m \in ends : \A e \in ends : m >= e

\* C24: computeTotalFrames() is the maximum over the active slots of
\* offsetFrames + effectiveFrames (0 for an empty list), and after every
\* completed addTrack (successful), removeTrack and removeAllTracks call
\* Transport.totalFrames equals it.
C24_TimelineLength ==
    /\ computeTotalFrames(ActiveSlots) = MaxEnd(ActiveSlots)
    /\ (mxCall.op \in {"addTrack", "removeTrack", "removeAllTracks"} /\ mxCall.ret)
          => tp.totalFrames = MaxEnd(ActiveSlots)

\* C26: the active track list holds at most one TrackSlot per track id.
C26_UniqueTrackIds ==
    \A k1, k2 \in 1..Len(ActiveSlots) :
       k1 # k2 => ActiveSlots[k1].trackId # ActiveSlots[k2].trackId

\* C27: every TrackSlot of the active list has effectiveFrames >= 0.
C27_EffectiveNonNegative ==
    \A k \in 1..Len(ActiveSlots) : ActiveSlots[k].effectiveFrames >= 0

\* C29: an addTrack whose source cannot be opened or decoded returns false,
\* leaves the active list pointer, both slot lists and Transport.totalFrames
\* unchanged, and leaves no mapping open for the failed source.
C29_AddTrackFailure ==
    [][ (mxCall'.op = "addTrack" /\ mxCall'.file \in {"missing", "notWav"}
           /\ mxCall' # mxCall) =>
          /\ ~mxCall'.ret
          /\ mxActive' = mxActive
          /\ mxLists' = mxLists
          /\ tp' = tp
          /\ ~mxCall'.mapped
      ]_vars

\* C29 witness: with one track on the timeline, addTrack of a file that maps
\* but is not RIFF/WAVE has returned false.
C29_Witness ==
    /\ mxCall.op = "addTrack"
    /\ mxCall.file = "notWav"
    /\ ~mxCall.ret
    /\ Len(ActiveSlots) = 1
    /\ tp.totalFrames > 0

\* ---------------------------------------------------- claims: SpecRender
\* C25: in a render of numFrames frames at position p, output frame j gets a
\* sample of a slot iff the slot is unmuted, has volume > 0,
\* offsetFrames <= p + j < offsetFrames + effectiveFrames and the source holds
\* the frame; the source frame is trimStartFrames + (p + j - offsetFrames);
\* left and right get the same; a slot with effectiveFrames <= 0 adds nothing.
C25_MixWindow ==
    mxCall.op = "render" =>
      \A j \in 0..(mxCall.numFrames - 1) :
        LET g == mxCall.pos + j
            hit == {k \in 1..Len(ActiveSlots) :
                      LET sl == ActiveSlots[k] IN
                        /\ ~sl.muted
                        /\ sl.volume > 0
                        /\ sl.offsetFrames <= g
                        /\ g < sl.offsetFrames + sl.effectiveFrames
                        /\ sl.trimStartFrames + (g - sl.offsetFrames) < sl.source.frames}
        IN /\ mxCall.out[j].from =
                {<<k, ActiveSlots[k].trimStartFrames + (g - ActiveSlots[k].offsetFrames)>>
                   : k \in hit}
           /\ mxCall.out[j].l = mxCall.out[j].r
           /\ \A k \in hit : ActiveSlots[k].effectiveFrames > 0

\* C25 witness: a block that straddles the start of the second track: its
\* first frame has a sample of the first track only, a later frame has a
\* sample of both.
C25_Witness ==
    /\ mxCall.op = "render"
    /\ Len(ActiveSlots) = 2
    /\ mxCall.pos < ActiveSlots[2].offsetFrames
    /\ {x[1] : x \in mxCall.out[0].from} = {1}
    /\ \E j \in 1..(mxCall.numFrames - 1) :
          {x[1] : x \in mxCall.out[j].from} = {1, 2}

C30_RealTimeNeverWaits ==
    /\ [](editMutex =>
            /\ rnd.pc = "idle" => ENABLED RenderLoad
            /\ rnd.pc # "idle" => ENABLED (RenderSlot \/ RenderFinish)
            /\ pcb.pc # "idle" => ENABLED OutputCallbackStep
            /\ cb.pc # "idle" => ENABLED InputCallbackStep)
    /\ [][ (rnd' # rnd \/ pcb' # pcb \/ cb' # cb \/ prod' # prod)
             => editMutex' = editMutex /\ mut' = mut ]_vars

\* C30 witness: with the control thread holding editMutex_ in the middle of
\* its edit (the lock was held from the first step on), renderFrames has gone
\* through every slot and is at its return, an output callback has rendered
\* a block and stored the new position, and an input callback has written
\* its samples to the ring and returned.
C30_Witness ==
    /\ editMutex
    /\ mut.pc = "commit"
    /\ rnd.pc = "loop" /\ rnd.i > Len(rnd.snapshot) /\ rnd.seen # <<>>
    /\ pcb.pc = "idle" /\ tp.posFrames = BurstFrames
    /\ cb.pc = "idle" /\ accepted # <<>>

\* ------------------------------------------- claims: SpecMixer (release)
\* C33: when removeTrack(id) or removeAllTracks() has returned and no render
\* is in flight, neither slot list references a removed TrackSlot, and the
\* removed track's source has been destroyed and its mapping closed.
C33_RemovedReleased ==
    (mut.pc = "idle" /\ mut.op \in {"remove", "removeAll"} /\ ~RenderInFlight) =>
      \A x \in Slots :
         (slotTrack[x] # 0 /\ x \notin Range(lists[activeList])) =>
            /\ x \notin Range(lists[OtherList(activeList)])
            /\ srcState[x] = "closed"

\* ------------------------------------------------------- claims: SpecSet
\* The volume and mute flag of the slots with this track id, in list order.
SlotControls(list, id) ==
    LET RECURSIVE Pick(_)
        Pick(q) == IF q = <<>> THEN <<>>
                   ELSE IF Head(q).trackId = id
                     THEN <<<<Head(q).volume, Head(q).muted>>>> \o Pick(Tail(q))
                   ELSE Pick(Tail(q))
    IN Pick(list)

\* The list with every volume and mute flag blanked: its membership.
Members(list) ==
    [k \in 1..Len(list) |-> [list[k] EXCEPT !.volume = 0, !.muted = FALSE]]

\* C31: setTrackVolume(id, v) and setTrackMuted(id, m) leave activeList_ and
\* the membership of both lists alone, change nothing for an unknown id, and
\* change no other track; after the call every slot of the active list with
\* that id carries the new value, and a later addTrack or removeTrack of
\* another track keeps the values of the slots with that id; a render uses
\* the volume and mute flag the active list's slots carry.
C31_TrackControls ==
    [][ /\ (mxCall'.op \in {"setTrackVolume", "setTrackMuted"} /\ mxCall' # mxCall) =>
           /\ mxActive' = mxActive
           /\ \A l \in {"A", "B"} : Members(mxLists'[l]) = Members(mxLists[l])
           /\ \A id \in TrackIds \ {mxCall'.id} :
                 SlotControls(mxLists'[mxActive], id) = SlotControls(mxLists[mxActive], id)
           /\ SlotControls(mxLists[mxActive], mxCall'.id) = <<>> => mxLists' = mxLists
           /\ \A k \in 1..Len(mxLists'[mxActive]) :
                 LET sl == mxLists'[mxActive][k] IN
                   sl.trackId = mxCall'.id =>
                     IF mxCall'.op = "setTrackVolume"
                       THEN sl.volume = mxCall'.value
                       ELSE sl.muted = (mxCall'.value = 1)
        /\ (mxCall'.op \in {"addTrack", "removeTrack"} /\ mxCall' # mxCall) =>
           \A id \in TrackIds \ {mxCall'.id} :
              SlotControls(mxLists'[mxActive'], id) = SlotControls(mxLists[mxActive], id)
        /\ (mxCall'.op = "render" /\ mxCall' # mxCall) =>
           \A j \in 0..(mxCall'.numFrames - 1) :
              mxCall'.out[j].sum =
                SumVolumes(mxLists[mxActive],
                           {k \in 1..Len(mxLists[mxActive]) :
                              LET sl == mxLists[mxActive][k] IN
                                /\ ~sl.muted /\ sl.volume > 0
                                /\ sl.offsetFrames <= mxCall'.pos + j
                                /\ mxCall'.pos + j < sl.offsetFrames + sl.effectiveFrames})
      ]_vars

\* ------------------------------------------------------- claims: SpecWav
\* C32: if open returns false the source is closed (isOpen() false,
\* totalFrames() 0, no mapping held); if it returns true the payload region
\* [dataOffset, dataOffset + 2 * totalFrames) lies inside the mapped file.
C32_OpenOutcome ==
    wav.pc = "done" =>
      IF ~wav.ret
        THEN /\ ~wav.src.pcmData
             /\ wav.src.totalFrames = 0
             /\ ~wav.src.mappedData
        ELSE /\ wav.src.pcmData
             /\ wav.src.mappedData
             /\ wav.src.totalFrames > 0 =>
                   /\ wav.src.dataOffset >= 0
                   /\ wav.src.dataOffset <= wav.src.mappedSize
                   /\ wav.src.totalFrames <=
                        (wav.src.mappedSize - wav.src.dataOffset) \div 2

\* C38: for every file of at least 44 bytes that starts with RIFF/WAVE and
\* every chunk-length value, the chunk walk terminates (with the data chunk
\* found or with failure) and reads no header byte outside the mapping.
C38_ChunkWalkTerminates ==
    /\ [](~wav.oob)
    /\ (wav.pc = "walk") ~> (wav.pc \in {"finish", "done"})

\* --------------------------------------------- claims: SpecCapture (teardown)
\* C34: in stop() on an active session the input stream is stopped and closed,
\* with no input callback running or able to start, before running_ is
\* cleared; the writer thread is joined before the header is patched and the
\* file closed; a closed file is never written again.
C34_TeardownOrder ==
    [][ /\ (ctl.op = "stop" /\ ww.running /\ ~ww'.running) =>
              /\ hw = "closed"
              /\ ~rs.stream
              /\ cb.pc = "idle"
        /\ (ctl.op = "stop" /\ ctl.pc \in {"sc_signal", "sc_join", "sc_close", "st_ret"}) =>
              /\ cb' = cb
              /\ hw' = "closed"
        /\ \A f \in 1..MaxStarts :
              /\ (/\ ctl.op = "stop"
                  /\ \/ files'[f].patches # files[f].patches
                     \/ files'[f].state # files[f].state) =>
                    /\ wr.pc = "none"
                    /\ cons.pc = "idle"
                    /\ ~ww.running
                    /\ files'[f].payload = files[f].payload
                    /\ files'[f].state = "closed"
              /\ files[f].state = "closed" => files'[f] = files[f]
      ]_vars

\* C34 witness: stop() on an active session is past stopConsuming(): the file
\* it found open holds samples, is patched and closed, and the writer thread
\* that wrote them is gone.
C34_Witness ==
    /\ ctl.op = "stop"
    /\ ctl.pc = "st_ret"
    /\ ctl.tore
    /\ files[ctl.file].state = "closed"
    /\ files[ctl.file].payload # <<>>
    /\ wr.pc = "none"
    /\ hw = "closed"

\* C35: start() on an active session returns false and changes nothing (ring
\* buffer, flags, peak, file, stream, writer); a start() that returns false
\* after a failed fopen, openStream or requestStart leaves the session
\* inactive, the input stream closed, no writer thread and no open file.
C35_StartFailure ==
    [][ /\ (starts' # starts /\ rs.active) =>
              /\ ctl'.pc = "idle"
              /\ ctl'.ret = 0
              /\ UNCHANGED <<ringVars, rs, hw, errPending, cb, ww, wr, files, crashed>>
        /\ (ctl.op = "start" /\ ctl.pc # "idle" /\ ctl'.pc = "idle" /\ ctl'.ret = 0) =>
              /\ ~rs'.active
              /\ ~rs'.stream
              /\ hw' = "closed"
              /\ wr'.pc = "none"
              /\ ~ww'.running
              /\ ww'.file = 0
              /\ \A f \in 1..MaxStarts : files'[f].state # "open"
      ]_vars

\* C37: a file closed by stopConsuming has, at offset 40, totalBytesWritten,
\* which is the number of payload bytes in the file (2 per sample), and at
\* offset 4 that number + 36; it was patched exactly once, a file not yet
\* closed was never patched, and no payload is written after the patch.
C37_HeaderPatch ==
    /\ \A f \in 1..MaxStarts :
          /\ files[f].state = "closed" =>
                /\ files[f].patches = 1
                /\ files[f].dataSize = kBytesPerSample * Len(files[f].payload)
                /\ files[f].riffSize = files[f].dataSize + 36
          /\ files[f].state # "closed" => files[f].patches = 0
    /\ (ctl.pc = "st_ret" /\ ctl.file # 0) =>
          files[ctl.file].dataSize = ww.totalBytesWritten

\* ------------------------------------------- claims: SpecPlayback (seek)
\* The control thread's last call was a seekTo that has returned.
SeekReturned == ectl.pc = "idle" /\ ectl.op = "seekTo"

\* C39: a seek is not lost under playback: after seekTo has returned, a
\* callback stores positionFrames only over the value it loaded itself, so a
\* callback that loaded the position before the seek never replaces the seek
\* target with its own advanced position.
C39_SeekNotLost ==
    [][ (SeekReturned /\ pcb.pc \in {"commit", "stopPos"} /\ pcb'.pc = "idle") =>
            tp.posFrames = pcb.adv - pcb.numFrames
      ]_vars

\* ----------------------------------------------------- claims: SpecBlock
\* C36: every readFrames call renderFrames makes returns 0 when the source is
\* not mapped or frameOffset >= totalFrames, else min(numFrames, totalFrames -
\* frameOffset); it reads only source frames in [0, totalFrames) and fills
\* only output[0 .. returned-1] of the buffer it was given.
C36_ReadFramesClamp ==
    mxCall.op = "render" =>
      \A k \in 1..Len(mxCall.spans) :
        LET sp == mxCall.spans[k]
            T == ActiveSlots[k].source.frames
        IN sp.called =>
             /\ sp.read = IF ~ActiveSlots[k].source.mapped \/ sp.sourceStart >= T
                            THEN 0 ELSE Min(sp.count, T - sp.sourceStart)
             /\ sp.read <= sp.count
             /\ sp.read > 0 =>
                   /\ 0 <= sp.sourceStart
                   /\ sp.sourceStart + sp.read <= T
             /\ \A j \in 0..(mxCall.numFrames - 1) :
                   \A x \in mxCall.out[j].from :
                      x[1] = k => (0 <= x[2] /\ x[2] < T)

\* C40: for every block size, also above kMaxFramesPerCallback, renderFrames
\* asks readFrames for at most kMaxFramesPerCallback frames into monoBuf, and
\* the output frames it adds to are below min(numFrames,
\* kMaxFramesPerCallback): skipOutput + framesRead stays within the block.
C40_RenderBounds ==
    mxCall.op = "render" =>
      /\ \A k \in 1..Len(mxCall.spans) :
            LET sp == mxCall.spans[k] IN
              /\ sp.count <= kMaxFramesPerCallback
              /\ sp.read <= kMaxFramesPerCallback
              /\ sp.skipOutput >= 0
              /\ sp.read >= 0
              /\ sp.skipOutput + sp.read <= Min(mxCall.numFrames, kMaxFramesPerCallback)
      /\ \A j \in 0..(mxCall.numFrames - 1) :
            mxCall.out[j].from # {} => j < kMaxFramesPerCallback

\* C40 witness: a block of kMaxFramesPerCallback + 1 frames over a track that
\* starts one burst into the block and lasts beyond it: the mono buffer is
\* cut at kMaxFramesPerCallback frames, the last output frames get nothing.
C40_Witness ==
    /\ mxCall.op = "render"
    /\ mxCall.numFrames = kMaxFramesPerCallback + 1
    /\ Len(mxCall.spans) = 1
    /\ mxCall.spans[1].skipOutput > 0
    /\ mxCall.spans[1].skipOutput + mxCall.spans[1].read = kMaxFramesPerCallback
    /\ mxCall.out[kMaxFramesPerCallback].from = {}
    /\ mxCall.out[kMaxFramesPerCallback - 1].from # {}

=============================================================================
